---------------------------- MODULE Spec2Model ----------------------------
(***************************************************************************)
(* A model of MXPaylink V1: the phone normaliser, the symmetric cipher,    *)
(* the credential decryptor and the WhatsApp message path.                 *)
(*                                                                         *)
(* JavaScript strings are sequences of UTF-16 code units (integers), so    *)
(* "52" is <<53, 50>>.  A JavaScript value is a record                     *)
(*   [t |-> its typeof-like tag, s |-> string content, props |-> fields]   *)
(* so that values of different types can be compared.                      *)
(***************************************************************************)
EXTENDS Integers, Sequences, FiniteSets, TLC

VARIABLES
    phoneNumber,    \* the raw text handed to normalizePhoneNumber
    phoneOut,       \* what normalizePhoneNumber returned for phoneNumber
    phoneTwinOut,   \* what it returned for the same digits without decoration
    phoneAgain,     \* what it returned when fed its own result
    phonePc,        \* "ready", "normalized", "twin", "renormalized"
    envKey,             \* process.env.ENCRYPTION_KEY
    ENCRYPTION_KEY,     \* the module variable of encryptionUtils.js
    isUsingDefaultKey,  \* the module constant of encryptionUtils.js
    log,                \* the messages encryptionUtils.js handed to the logger
    req,                \* the call under study: [op, arg]
    envelope,           \* what encrypt returned
    out,                \* the outcome of decrypt or decryptProviderCredentials
    calls,              \* the functions decryptProviderCredentials invoked, in order
    other,              \* the second argument of a pair of calls under comparison
    otherOut,           \* the outcome of the call on it
    cipherPc,           \* "boot", "idle", "encrypted", "done"
    body,           \* req.body of the POST that 360Dialog delivers
    clients,        \* the rows of the clients table
    from,           \* messageData.from, as handed on to processMessage
    messageText,    \* messageData.text.body
    customer,       \* what findCustomerByPhoneNumber returned
    queries,        \* the values bound to $1 in the SELECT ... WHERE phone = $1 issued
    handled,        \* the handlers processMessage has invoked, in order
    responses,      \* the HTTP status codes written to res, in order
    acquired,       \* pool.connect() calls that yielded a client
    released,       \* client.release() calls
    msgPc,          \* where the POST is in handleIncomingMessage / processMessage
    extractedData,  \* what extractPaymentData returned to registeredHandler.handle
    sent,           \* the WhatsApp messages the handlers put out (simulated sends)
    orders,         \* the credentials of each paypalService.createOrder call
    http,           \* the HTTP requests paypalService made, in order
    posts,          \* the POSTs received so far
    webhookBody,            \* req.body of the POST that PayPal delivers
    hookPc,                 \* where that POST is in handleWebhook
    hookRes,                \* what handleWebhook wrote to res, in order
    processed,              \* the arguments of each processCaptureCompleted call
    hubQuery,               \* req.query of the verification GET
    WEBHOOK_VERIFY_TOKEN,   \* process.env.WEBHOOK_VERIFY_TOKEN
    verifyRes,              \* what verifyWebhook wrote to res, in order
    verifyPc                \* "received", "answered"

phoneVars == <<phoneNumber, phoneOut, phoneTwinOut, phoneAgain, phonePc>>

cipherVars == <<envKey, ENCRYPTION_KEY, isUsingDefaultKey, log, req, envelope, out, calls,
                other, otherOut, cipherPc>>

\* what the registered handler leaves behind
payVars == <<extractedData, sent, orders, http>>

msgVars == <<body, clients, from, messageText, customer, queries, handled, responses,
             acquired, released, msgPc, extractedData, sent, orders, http, posts>>

hookVars == <<webhookBody, hookPc, hookRes, processed, hubQuery, WEBHOOK_VERIFY_TOKEN,
              verifyRes, verifyPc>>

vars == <<phoneVars, cipherVars, msgVars, hookVars>>

-----------------------------------------------------------------------------
(* JavaScript values *)

Str(s) == [t |-> "string", s |-> s, props |-> <<>>]
Null == [t |-> "null", s |-> <<>>, props |-> <<>>]
Undefined == [t |-> "undefined", s |-> <<>>, props |-> <<>>]
NotCalled == [t |-> "notcalled", s |-> <<>>, props |-> <<>>]

\* JavaScript truthiness of the values the model uses: null, undefined and
\* the empty string are falsy; a number is falsy when it is 0 (no non-zero
\* digit before an exponent).
Falsy(v) ==
    \/ v.t \in {"null", "undefined"}
    \/ v.t = "string" /\ v.s = <<>>
    \/ v.t = "number" /\ \A i \in 1..Len(v.s) :
            (\A j \in 1..i : v.s[j] \notin {101, 69}) => v.s[i] \notin 49..57
    \/ v.t = "boolean" /\ v.s = <<102, 97, 108, 115, 101>>

\* String.prototype.startsWith and String.prototype.substring(n)
StartsWith(s, p) == Len(s) >= Len(p) /\ SubSeq(s, 1, Len(p)) = p
Substring(s, n) == SubSeq(s, n + 1, Len(s))

\* \d of a JavaScript regular expression without the u flag: 0-9
IsDigit(c) == c \in 48..57

-----------------------------------------------------------------------------
(* src/utils/phoneNormalizer.js *)

\* phoneNumber.replace(/[^\d+]/g, ''): every '+' (43) is kept, wherever it is
Cleaned(s) == SelectSeq(s, LAMBDA c : IsDigit(c) \/ c = 43)

\* if (cleaned.startsWith('+')) cleaned = cleaned.substring(1)
DropPlus(cleaned) == IF StartsWith(cleaned, <<43>>) THEN Substring(cleaned, 1) ELSE cleaned

\* Dispatch with the 12-digit branch testing '521', the prefix of the 13-digit
\* branch (a copy-and-paste slip)
Dispatch12As13(cleaned) ==
    CASE Len(cleaned) = 10 -> Str(<<53, 50>> \o cleaned)
      [] Len(cleaned) = 11 ->
            IF StartsWith(cleaned, <<49>>) THEN Str(<<53, 50>> \o Substring(cleaned, 1)) ELSE Null
      [] Len(cleaned) = 12 ->
            IF StartsWith(cleaned, <<53, 50, 49>>) THEN Str(cleaned) ELSE Null
      [] Len(cleaned) = 13 ->
            IF StartsWith(cleaned, <<53, 50, 49>>) THEN Str(<<53, 50>> \o Substring(cleaned, 3)) ELSE Null
      [] OTHER -> Null

\* Dispatch with the 11-character branch cutting the last character instead
\* of the leading '1': cleaned.substring(0, 10)
DispatchCutsTail(cleaned) ==
    CASE Len(cleaned) = 10 -> Str(<<53, 50>> \o cleaned)
      [] Len(cleaned) = 11 ->
            IF StartsWith(cleaned, <<49>>) THEN Str(<<53, 50>> \o SubSeq(cleaned, 1, 10)) ELSE Null
      [] Len(cleaned) = 12 ->
            IF StartsWith(cleaned, <<53, 50>>) THEN Str(cleaned) ELSE Null
      [] Len(cleaned) = 13 ->
            IF StartsWith(cleaned, <<53, 50, 49>>) THEN Str(<<53, 50>> \o Substring(cleaned, 3)) ELSE Null
      [] OTHER -> Null

\* the switch on cleaned.length; Null stands for the early "return null"
Dispatch(cleaned) ==
    CASE Len(cleaned) = 10 -> Str(<<53, 50>> \o cleaned)
      [] Len(cleaned) = 11 ->
            IF StartsWith(cleaned, <<49>>) THEN Str(<<53, 50>> \o Substring(cleaned, 1)) ELSE Null
      [] Len(cleaned) = 12 ->
            IF StartsWith(cleaned, <<53, 50>>) THEN Str(cleaned) ELSE Null
      [] Len(cleaned) = 13 ->
            IF StartsWith(cleaned, <<53, 50, 49>>) THEN Str(<<53, 50>> \o Substring(cleaned, 3)) ELSE Null
      [] OTHER -> Null

\* step 5: normalized && normalized.length === 12 && startsWith('52') and a
\* local part of 10 characters; nothing here looks at what the characters are
FinalCheck(normalized) ==
    IF /\ ~Falsy(normalized)
       /\ Len(normalized.s) = 12
       /\ StartsWith(normalized.s, <<53, 50>>)
       /\ Len(Substring(normalized.s, 2)) = 10
    THEN normalized
    ELSE Null

normalizePhoneNumber(input) ==
    IF Falsy(input) THEN Null
    ELSE LET cleaned == DropPlus(Cleaned(input.s))
         IN  IF Len(cleaned) < 10 \/ Len(cleaned) > 13 THEN Null
             ELSE FinalCheck(Dispatch(cleaned))

-----------------------------------------------------------------------------
(* Node.js library behaviour used by src/utils/encryptionUtils.js *)

\* the function f on 1..n as a sequence (a Buffer or a string of n elements)
AsSeq(f, n) == SubSeq(f, 1, n)

\* bytes of a Buffer are 0..255
RECURSIVE BitXor(_, _)
BitXor(a, b) ==
    IF a = 0 THEN b
    ELSE IF b = 0 THEN a
    ELSE (((a % 2) + (b % 2)) % 2) + 2 * BitXor(a \div 2, b \div 2)

IsCont(b) == b \in 128..191

\* Buffer.from(text, 'utf8') / cipher.update(text, 'utf8'): an unpaired
\* surrogate code unit is encoded as U+FFFD (EF BF BD)
RECURSIVE Utf8Encode(_)
Utf8Encode(s) ==
    IF s = <<>> THEN <<>>
    ELSE LET c == s[1]
         IN  IF c < 128 THEN <<c>> \o Utf8Encode(Tail(s))
             ELSE IF c < 2048
                  THEN <<192 + (c \div 64), 128 + (c % 64)>> \o Utf8Encode(Tail(s))
             ELSE IF c \in 55296..56319 /\ Len(s) >= 2 /\ s[2] \in 56320..57343
                  THEN LET cp == 65536 + (c - 55296) * 1024 + (s[2] - 56320)
                       IN  << 240 + (cp \div 262144), 128 + ((cp \div 4096) % 64),
                              128 + ((cp \div 64) % 64), 128 + (cp % 64) >>
                           \o Utf8Encode(Tail(Tail(s)))
             ELSE IF c \in 55296..57343
                  THEN <<239, 191, 189>> \o Utf8Encode(Tail(s))
             ELSE << 224 + (c \div 4096), 128 + ((c \div 64) % 64), 128 + (c % 64) >>
                  \o Utf8Encode(Tail(s))

\* buffer.toString('latin1') in place of 'utf8': one code unit per byte
Latin1Decode(b) == b

\* buffer.toString('utf8'): never fails; every ill-formed subsequence becomes
\* one U+FFFD (65533)
RECURSIVE Utf8Decode(_)
Utf8Decode(b) ==
    IF b = <<>> THEN <<>>
    ELSE LET b1 == b[1]
             n  == Len(b)
             Rest(k) == Utf8Decode(SubSeq(b, k + 1, n))
         IN  IF b1 < 128 THEN <<b1>> \o Rest(1)
             ELSE IF b1 \in 194..223
                  THEN IF n >= 2 /\ IsCont(b[2])
                       THEN <<(b1 - 192) * 64 + (b[2] - 128)>> \o Rest(2)
                       ELSE <<65533>> \o Rest(1)
             ELSE IF b1 \in 224..239
                  THEN LET lo == IF b1 = 224 THEN 160 ELSE 128
                           hi == IF b1 = 237 THEN 159 ELSE 191
                       IN  IF ~(n >= 2 /\ b[2] \in lo..hi) THEN <<65533>> \o Rest(1)
                           ELSE IF ~(n >= 3 /\ IsCont(b[3])) THEN <<65533>> \o Rest(2)
                           ELSE <<(b1 - 224) * 4096 + (b[2] - 128) * 64 + (b[3] - 128)>> \o Rest(3)
             ELSE IF b1 \in 240..244
                  THEN LET lo == IF b1 = 240 THEN 144 ELSE 128
                           hi == IF b1 = 244 THEN 143 ELSE 191
                       IN  IF ~(n >= 2 /\ b[2] \in lo..hi) THEN <<65533>> \o Rest(1)
                           ELSE IF ~(n >= 3 /\ IsCont(b[3])) THEN <<65533>> \o Rest(2)
                           ELSE IF ~(n >= 4 /\ IsCont(b[4])) THEN <<65533>> \o Rest(3)
                           ELSE LET cp == (b1 - 240) * 262144 + (b[2] - 128) * 4096
                                          + (b[3] - 128) * 64 + (b[4] - 128) - 65536
                                IN  <<55296 + (cp \div 1024), 56320 + (cp % 1024)>> \o Rest(4)
             ELSE <<65533>> \o Rest(1)

\* buffer.toString('hex'): two lowercase hexadecimal digits per byte
HexDigit(n) == IF n < 10 THEN 48 + n ELSE 87 + n
HexEncode(b) ==
    AsSeq([i \in 1..(2 * Len(b)) |->
        IF i % 2 = 1 THEN HexDigit(b[(i + 1) \div 2] \div 16) ELSE HexDigit(b[i \div 2] % 16)],
        2 * Len(b))

\* Buffer.from(text, 'hex'): decoding stops at the first pair that is not two
\* hexadecimal digits; a trailing single character is dropped; it never fails
HexVal(c) ==
    IF c \in 48..57 THEN c - 48
    ELSE IF c \in 97..102 THEN c - 87
    ELSE IF c \in 65..70 THEN c - 55
    ELSE -1
HexDecode(s) ==
    LET bad == {i \in 1..Len(s) : HexVal(s[i]) < 0}
        firstBad == IF bad = {} THEN Len(s) + 1 ELSE CHOOSE i \in bad : \A j \in bad : i <= j
        n == (firstBad - 1) \div 2
    IN  AsSeq([j \in 1..n |-> 16 * HexVal(s[2 * j - 1]) + HexVal(s[2 * j])], n)

\* text.split(sep, 2) in place of text.split(sep): the text is cut at the
\* first occurrence of sep only
SplitFirst(s, sep) ==
    LET at == {i \in 1..Len(s) : s[i] = sep}
        first == CHOOSE i \in at : \A j \in at : i <= j
    IN  IF at = {} THEN <<s>>
        ELSE <<SubSeq(s, 1, first - 1), SubSeq(s, first + 1, Len(s))>>

\* text.split(sep): the parts between the occurrences of the code unit sep
Split(s, sep) ==
    LET at == {i \in 1..Len(s) : s[i] = sep}
        n == Cardinality(at)
        Pos(k) == IF k = 0 THEN 0
                  ELSE IF k = n + 1 THEN Len(s) + 1
                  ELSE CHOOSE i \in at : Cardinality({j \in at : j < i}) = k - 1
    IN  AsSeq([k \in 1..(n + 1) |-> SubSeq(s, Pos(k - 1) + 1, Pos(k) - 1)], n + 1)

\* text.includes(':')
Includes(s, c) == \E i \in 1..Len(s) : s[i] = c

(* aes-256-cbc.  AES itself is replaced by a small keyed permutation of      *)
(* 16-byte blocks (two chained additions, one in each direction, so that     *)
(* every ciphertext byte depends on every plaintext byte and on the key);    *)
(* the chaining, the padding, the sizes and the failures are OpenSSL's.      *)

BlockBytes == 16
KeyBytes == 32

\* the stand-in for one AES block encryption under a 32-byte key
BlockEncrypt(key, x) ==
    LET y[i \in 1..BlockBytes] ==
            IF i = 1 THEN (x[1] + key[1]) % 256
            ELSE (x[i] + y[i - 1] + key[i]) % 256
        z[j \in 1..BlockBytes] ==
            IF j = BlockBytes THEN (y[BlockBytes] + key[2 * BlockBytes]) % 256
            ELSE (y[j] + z[j + 1] + key[BlockBytes + j]) % 256
    IN  AsSeq([i \in 1..BlockBytes |-> z[i]], BlockBytes)

\* its inverse
BlockDecrypt(key, z) ==
    LET y == [i \in 1..BlockBytes |->
                IF i = BlockBytes THEN (z[i] - key[2 * BlockBytes]) % 256
                ELSE (z[i] - z[i + 1] - key[BlockBytes + i]) % 256]
    IN  AsSeq([i \in 1..BlockBytes |->
                  IF i = 1 THEN (y[1] - key[1]) % 256
                  ELSE (y[i] - y[i - 1] - key[i]) % 256], BlockBytes)

XorBlock(a, b) == AsSeq([i \in 1..BlockBytes |-> BitXor(a[i], b[i])], BlockBytes)

\* setAutoPadding(true): PKCS#7, always 1..16 bytes of padding
Pkcs7Pad(data) ==
    LET n == BlockBytes - (Len(data) % BlockBytes)
    IN  data \o [i \in 1..n |-> n]

\* the padding check of decipher.final(): Len 0 means "bad decrypt"
PadLength(data) ==
    LET n == data[Len(data)]
    IN  IF n \in 1..BlockBytes /\ \A i \in (Len(data) - n + 1)..Len(data) : data[i] = n
        THEN n ELSE 0

RECURSIVE CbcEncrypt(_, _, _)
CbcEncrypt(key, prev, data) ==
    IF data = <<>> THEN <<>>
    ELSE LET c == BlockEncrypt(key, XorBlock(SubSeq(data, 1, BlockBytes), prev))
         IN  c \o CbcEncrypt(key, c, SubSeq(data, BlockBytes + 1, Len(data)))

RECURSIVE CbcDecrypt(_, _, _)
CbcDecrypt(key, prev, data) ==
    IF data = <<>> THEN <<>>
    ELSE LET c == SubSeq(data, 1, BlockBytes)
         IN  XorBlock(BlockDecrypt(key, c), prev)
             \o CbcDecrypt(key, c, SubSeq(data, BlockBytes + 1, Len(data)))

\* crypto.createCipheriv / createDecipheriv('aes-256-cbc', key, iv) throw
\* "Invalid key length" unless the key (a string, taken as UTF-8) is 32 bytes,
\* and "Invalid initialization vector" unless the IV is 16 bytes
CipherivThrows(keyText, iv) ==
    Len(Utf8Encode(keyText)) # KeyBytes \/ Len(iv) # BlockBytes

-----------------------------------------------------------------------------
(* JSON.parse, as used on the decrypted credentials *)

Num(text) == [t |-> "number", s |-> text, props |-> <<>>]
Bool(text) == [t |-> "boolean", s |-> text, props |-> <<>>]
Obj(props) == [t |-> "object", s |-> <<>>, props |-> props]
Arr(elems) == [t |-> "array", s |-> <<>>, props |-> elems]

\* typeof: arrays and null are 'object'
TypeOf(v) == IF v.t \in {"object", "array", "null"} THEN "object" ELSE v.t

\* value.name for an object; undefined for a missing field or a non-object
GetProp(v, name) ==
    IF v.t = "object" /\ \E i \in 1..Len(v.props) : v.props[i].k = name
    THEN v.props[CHOOSE i \in 1..Len(v.props) : v.props[i].k = name].val
    ELSE Undefined

\* a later member of the same name replaces an earlier one
SetProp(props, name, val) ==
    SelectSeq(props, LAMBDA m : m.k # name) \o <<[k |-> name, val |-> val]>>

At(s, i) == IF i \in 1..Len(s) THEN s[i] ELSE -1

ParseFail == [ok |-> FALSE, val |-> Undefined, pos |-> 0]
ParseOk(v, next) == [ok |-> TRUE, val |-> v, pos |-> next]

RECURSIVE SkipWs(_, _)
SkipWs(s, i) == IF At(s, i) \in {32, 9, 10, 13} THEN SkipWs(s, i + 1) ELSE i

RECURSIVE DigitsEnd(_, _)
DigitsEnd(s, i) == IF IsDigit(At(s, i)) THEN DigitsEnd(s, i + 1) ELSE i

\* -? (0 | [1-9][0-9]*) (\. [0-9]+)? ([eE] [+-]? [0-9]+)?
ParseNumber(s, i) ==
    LET a == IF At(s, i) = 45 THEN i + 1 ELSE i
        b == IF At(s, a) = 48 THEN a + 1 ELSE DigitsEnd(s, a)
        c == IF At(s, b) = 46 THEN DigitsEnd(s, b + 1) ELSE b
        e == IF At(s, c) \in {101, 69}
             THEN (IF At(s, c + 1) \in {43, 45} THEN c + 2 ELSE c + 1)
             ELSE c
        d == IF e = c THEN c ELSE DigitsEnd(s, e)
    IN  IF b = a \/ (At(s, b) = 46 /\ c = b + 1) \/ (e # c /\ d = e)
        THEN ParseFail
        ELSE ParseOk(Num(SubSeq(s, i, d - 1)), d)

RECURSIVE ParseChars(_, _, _)
ParseChars(s, i, acc) ==
    LET c == At(s, i)
    IN  IF c < 32 THEN ParseFail
        ELSE IF c = 34 THEN ParseOk(Str(acc), i + 1)
        ELSE IF c # 92 THEN ParseChars(s, i + 1, Append(acc, c))
        ELSE LET x == At(s, i + 1)
             IN  IF x \in {34, 92, 47} THEN ParseChars(s, i + 2, Append(acc, x))
                 ELSE IF x = 98 THEN ParseChars(s, i + 2, Append(acc, 8))
                 ELSE IF x = 102 THEN ParseChars(s, i + 2, Append(acc, 12))
                 ELSE IF x = 110 THEN ParseChars(s, i + 2, Append(acc, 10))
                 ELSE IF x = 114 THEN ParseChars(s, i + 2, Append(acc, 13))
                 ELSE IF x = 116 THEN ParseChars(s, i + 2, Append(acc, 9))
                 ELSE IF x = 117 /\ \A k \in 2..5 : HexVal(At(s, i + k)) >= 0
                      THEN ParseChars(s, i + 6,
                               Append(acc, 4096 * HexVal(s[i + 2]) + 256 * HexVal(s[i + 3])
                                           + 16 * HexVal(s[i + 4]) + HexVal(s[i + 5])))
                 ELSE ParseFail

ParseLiteral(s, i, word, v) ==
    IF i + Len(word) - 1 <= Len(s) /\ SubSeq(s, i, i + Len(word) - 1) = word
    THEN ParseOk(v, i + Len(word))
    ELSE ParseFail

RECURSIVE ParseValue(_, _)
RECURSIVE ParseMembers(_, _, _)
RECURSIVE ParseElements(_, _, _)

\* after '{' or ',': "key" : value, then ',' or '}'
ParseMembers(s, i, acc) ==
    LET a == SkipWs(s, i)
        key == IF At(s, a) = 34 THEN ParseChars(s, a + 1, <<>>) ELSE ParseFail
        b == SkipWs(s, key.pos)
        v == IF key.ok /\ At(s, b) = 58 THEN ParseValue(s, b + 1) ELSE ParseFail
        c == SkipWs(s, v.pos)
    IN  IF ~v.ok THEN ParseFail
        ELSE IF At(s, c) = 44 THEN ParseMembers(s, c + 1, SetProp(acc, key.val.s, v.val))
        ELSE IF At(s, c) = 125 THEN ParseOk(Obj(SetProp(acc, key.val.s, v.val)), c + 1)
        ELSE ParseFail

\* after '[' or ',': value, then ',' or ']'
ParseElements(s, i, acc) ==
    LET v == ParseValue(s, i)
        c == SkipWs(s, v.pos)
    IN  IF ~v.ok THEN ParseFail
        ELSE IF At(s, c) = 44
             THEN ParseElements(s, c + 1, Append(acc, [k |-> <<>>, val |-> v.val]))
        ELSE IF At(s, c) = 93
             THEN ParseOk(Arr(Append(acc, [k |-> <<>>, val |-> v.val])), c + 1)
        ELSE ParseFail

ParseValue(s, i) ==
    LET a == SkipWs(s, i)
        c == At(s, a)
    IN  IF c = 123
        THEN (IF At(s, SkipWs(s, a + 1)) = 125
              THEN ParseOk(Obj(<<>>), SkipWs(s, a + 1) + 1)
              ELSE ParseMembers(s, a + 1, <<>>))
        ELSE IF c = 91
        THEN (IF At(s, SkipWs(s, a + 1)) = 93
              THEN ParseOk(Arr(<<>>), SkipWs(s, a + 1) + 1)
              ELSE ParseElements(s, a + 1, <<>>))
        ELSE IF c = 34 THEN ParseChars(s, a + 1, <<>>)
        ELSE IF c = 45 \/ IsDigit(c) THEN ParseNumber(s, a)
        ELSE IF c = 116 THEN ParseLiteral(s, a, <<116, 114, 117, 101>>, Bool(<<116, 114, 117, 101>>))
        ELSE IF c = 102
        THEN ParseLiteral(s, a, <<102, 97, 108, 115, 101>>, Bool(<<102, 97, 108, 115, 101>>))
        ELSE IF c = 110 THEN ParseLiteral(s, a, <<110, 117, 108, 108>>, Null)
        ELSE ParseFail

\* JSON.parse(text): ok is FALSE where JSON.parse throws a SyntaxError
JsonParse(s) ==
    LET r == ParseValue(s, 1)
    IN  IF r.ok /\ SkipWs(s, r.pos) = Len(s) + 1 THEN r ELSE ParseFail

-----------------------------------------------------------------------------
(* src/utils/encryptionUtils.js *)

\* one logger call: msg names the message, keyPart holds the characters of
\* ENCRYPTION_KEY that the message text includes
LogEntry(level, msg, keyPart) == [level |-> level, msg |-> msg, keyPart |-> keyPart]

\* crypto.randomBytes(16) as a fresh IV: two of the possible draws
RandomIVs ==
    { [i \in 1..BlockBytes |-> (i * 17) % 256],
      [i \in 1..BlockBytes |-> (200 + i * 3) % 256] }

\* crypto.randomBytes(16).toString('hex'): 32 characters
GeneratedKeys16 ==
    { HexEncode([i \in 1..16 |-> (i * 37 + 5) % 256]),
      HexEncode([i \in 1..16 |-> (i * 11 + 130) % 256]) }

\* crypto.randomBytes(32).toString('hex'): 64 characters; two possible draws
GeneratedKeys ==
    { HexEncode([i \in 1..KeyBytes |-> (i * 37 + 5) % 256]),
      HexEncode([i \in 1..KeyBytes |-> (i * 11 + 130) % 256]) }

\* the module body: validation of the key, then the fallback key
LoadModule ==
    /\ cipherPc = "boot"
    /\ LET validation ==
               IF Falsy(envKey)
               THEN <<LogEntry("error", "ENCRYPTION_KEY no definida", <<>>)>>
               ELSE IF Len(Utf8Encode(envKey.s)) # KeyBytes
               THEN << LogEntry("error", "ENCRYPTION_KEY no tiene 32 bytes", <<>>),
                       LogEntry("error", "Longitud actual", <<>>) >>
               ELSE <<LogEntry("info", "Clave de encriptacion cargada y valida", <<>>)>>
       IN  /\ isUsingDefaultKey' = Falsy(envKey)
           /\ IF Falsy(envKey)
              THEN \E k \in GeneratedKeys :
                      /\ ENCRYPTION_KEY' = Str(k)
                      /\ log' = validation \o
                             <<LogEntry("warn", "Clave de encriptacion por defecto generada",
                                        SubSeq(k, 1, 10))>>
              ELSE /\ ENCRYPTION_KEY' = envKey
                   /\ log' = validation
    /\ cipherPc' = "idle"
    /\ UNCHANGED <<envKey, req, envelope, out, calls, other, otherOut>>
    /\ UNCHANGED <<phoneVars, hookVars>>
    /\ UNCHANGED msgVars

DefaultKeyWarning(msg) ==
    IF isUsingDefaultKey THEN <<LogEntry("warn", msg, <<>>)>> ELSE <<>>

\* the envelope of a plaintext under a 32-byte key and a 16-byte IV
\* an envelope whose IV segment is sixteen zero bytes, whatever IV was used
EnvelopeFixedIV(key, iv, text) ==
    HexEncode([i \in 1..BlockBytes |-> 0]) \o <<58>>
        \o HexEncode(CbcEncrypt(key, iv, Pkcs7Pad(Utf8Encode(text))))

\* iv.toString('hex') + ':' + encrypted
Envelope(key, iv, text) ==
    HexEncode(iv) \o <<58>> \o HexEncode(CbcEncrypt(key, iv, Pkcs7Pad(Utf8Encode(text))))

\* encrypt(text) with iv the value crypto.randomBytes(16) returned:
\* [ret |-> the value returned, log |-> the messages logged]
encrypt(text, iv) ==
    LET warned == DefaultKeyWarning("clave de encriptacion por defecto")
    IN  IF Falsy(ENCRYPTION_KEY)
        THEN [ret |-> Null,
              log |-> warned \o <<LogEntry("error", "No se puede encriptar", <<>>)>>]
        ELSE IF CipherivThrows(ENCRYPTION_KEY.s, iv) \/ text.t # "string"
        THEN \* createCipheriv or cipher.update threw; the catch returns null
             [ret |-> Null,
              log |-> warned \o <<LogEntry("error", "Error al encriptar", <<>>)>>]
        ELSE [ret |-> Str(Envelope(Utf8Encode(ENCRYPTION_KEY.s), iv, text.s)),
              log |-> warned]

\* decrypt(encryptedText)
decrypt(encryptedText) ==
    LET warned == DefaultKeyWarning("clave de desencriptacion por defecto")
        failed == [ret |-> Null,
                   log |-> warned \o <<LogEntry("error", "Error al desencriptar", <<>>)>>]
    IN  IF Falsy(ENCRYPTION_KEY)
        THEN [ret |-> Null,
              log |-> warned \o <<LogEntry("error", "No se puede desencriptar", <<>>)>>]
        ELSE IF encryptedText.t # "string"
        THEN failed     \* encryptedText.split is not a function (or of null)
        ELSE LET textParts == Split(encryptedText.s, 58)
             IN  IF Len(textParts) # 2
                 THEN [ret |-> Null,
                       log |-> warned \o
                           <<LogEntry("error", "Formato de texto encriptado invalido", <<>>)>>]
                 ELSE LET iv == HexDecode(textParts[1])
                          encryptedBuffer == HexDecode(textParts[2])
                      IN  IF CipherivThrows(ENCRYPTION_KEY.s, iv)
                          THEN failed
                          ELSE IF encryptedBuffer = <<>> \/ Len(encryptedBuffer) % BlockBytes # 0
                          THEN failed     \* decipher.final(): wrong final block length
                          ELSE LET padded == CbcDecrypt(Utf8Encode(ENCRYPTION_KEY.s), iv,
                                                        encryptedBuffer)
                                   n == PadLength(padded)
                               IN  IF n = 0
                                   THEN failed     \* decipher.final(): bad decrypt
                                   ELSE [ret |-> Str(Utf8Decode(SubSeq(padded, 1, Len(padded) - n))),
                                         log |-> warned]

\* convertFromLegacyFormat(credsString)
convertFromLegacyFormat(credsString) ==
    IF credsString.t = "string" /\ Includes(credsString.s, 58)
    THEN LET parts == Split(credsString.s, 58)
         IN  IF Len(parts) = 2
             THEN Obj(<< [k |-> <<99, 108, 105, 101, 110, 116, 95, 105, 100>>, val |-> Str(parts[1])],
                         [k |-> <<115, 101, 99, 114, 101, 116>>, val |-> Str(parts[2])] >>)
             ELSE Null
    ELSE Null

-----------------------------------------------------------------------------
(* src/utils/credentialDecryptor.js *)

\* lines 186-198 with the object test kept only for strings: a stored object
\* is an unexpected format
ExtractEncryptedStringOnly(credsFromDB) ==
    IF TypeOf(credsFromDB) = "string"
    THEN [threw |-> FALSE, found |-> TRUE, val |-> credsFromDB]
    ELSE [threw |-> FALSE, found |-> FALSE, val |-> Null]

\* lines 186-198, the shape of the stored value: found with the encrypted
\* string, or not found (unexpected format), or the TypeError of reading
\* .encrypted of null (typeof null is 'object'), outside every try block
ExtractEncrypted(credsFromDB) ==
    LET encryptedField == GetProp(credsFromDB, <<101, 110, 99, 114, 121, 112, 116, 101, 100>>)
    IN  IF credsFromDB.t = "null"
        THEN [threw |-> TRUE, found |-> FALSE, val |-> Undefined]
        ELSE IF TypeOf(credsFromDB) = "object" /\ ~Falsy(encryptedField)
        THEN [threw |-> FALSE, found |-> TRUE, val |-> encryptedField]
        ELSE IF TypeOf(credsFromDB) = "string"
        THEN [threw |-> FALSE, found |-> TRUE, val |-> credsFromDB]
        ELSE [threw |-> FALSE, found |-> FALSE, val |-> Null]

\* lines 220-239 with the two attempts in the other order
ParseCredentialsLegacyFirst(decryptedCredsString) ==
    IF convertFromLegacyFormat(decryptedCredsString) # Null
    THEN [ret |-> convertFromLegacyFormat(decryptedCredsString),
          calls |-> <<"convertFromLegacyFormat">>]
    ELSE CHOOSE result \in
             { [ret |-> IF parsed.ok THEN parsed.val ELSE Null,
                calls |-> <<"convertFromLegacyFormat", "JSON.parse">>] :
                 parsed \in {JsonParse(decryptedCredsString.s)} } : TRUE

\* lines 220-239 without the legacy conversion (as customerDB.js has it for
\* Conekta and MercadoPago)
ParseCredentialsJsonOnly(decryptedCredsString) ==
    CHOOSE result \in
        { [ret |-> IF parsed.ok THEN parsed.val ELSE Null, calls |-> <<"JSON.parse">>] :
            parsed \in {JsonParse(decryptedCredsString.s)} } : TRUE

\* lines 220-239, on a non-empty decrypted string: JSON.parse, and
\* convertFromLegacyFormat in its catch
ParseCredentials(decryptedCredsString) ==
    CHOOSE result \in
        { IF parsed.ok
          THEN [ret |-> parsed.val, calls |-> <<"JSON.parse">>]
          ELSE [ret |-> convertFromLegacyFormat(decryptedCredsString),
                calls |-> <<"JSON.parse", "convertFromLegacyFormat">>] :
            parsed \in {JsonParse(decryptedCredsString.s)} } : TRUE

\* decryptProviderCredentials(credsFromDB, providerName, customerId):
\* [ret |-> the value returned, threw |-> TRUE when an exception left the
\* function, log |-> what decrypt logged, calls |-> the functions it invoked]
decryptProviderCredentials(credsFromDB) ==
    CHOOSE result \in
        { IF shape.threw
          THEN [ret |-> Undefined, threw |-> TRUE, log |-> <<>>, calls |-> <<>>]
          ELSE IF ~shape.found
          THEN [ret |-> Null, threw |-> FALSE, log |-> <<>>, calls |-> <<>>]
          ELSE CHOOSE r \in
                   { IF Falsy(d.ret)
                     THEN [ret |-> Null, threw |-> FALSE, log |-> d.log, calls |-> <<"decrypt">>]
                     ELSE CHOOSE r2 \in
                              { [ret |-> parsed.ret, threw |-> FALSE, log |-> d.log,
                                 calls |-> <<"decrypt">> \o parsed.calls] :
                                  parsed \in {ParseCredentials(d.ret)} } : TRUE
                     : d \in {decrypt(shape.val)} } : TRUE
          : shape \in {ExtractEncrypted(credsFromDB)} } : TRUE

-----------------------------------------------------------------------------
(* The keys, plaintexts and stored values the cipher specification draws from *)

\* a structured record (its secret holds a colon): {"client_id":"AcC-Kx","secret":"EG0:DEx"}
TextStructured ==
    << 123, 34, 99, 108, 105, 101, 110, 116, 95, 105, 100, 34, 58, 34, 65, 99, 67, 45,
       75, 120, 34, 44, 34, 115, 101, 99, 114, 101, 116, 34, 58, 34, 69, 71, 48, 58, 68,
       69, 120, 34, 125 >>

\* an object without secret: {"client_id":"AcC-Kx"}
TextNoSecret ==
    << 123, 34, 99, 108, 105, 101, 110, 116, 95, 105, 100, 34, 58, 34, 65, 99, 67, 45,
       75, 120, 34, 125 >>

\* an object with an empty secret: {"client_id":"AcC-Kx","secret":""}
TextEmptySecret ==
    << 123, 34, 99, 108, 105, 101, 110, 116, 95, 105, 100, 34, 58, 34, 65, 99, 67, 45,
       75, 120, 34, 44, 34, 115, 101, 99, 114, 101, 116, 34, 58, 34, 34, 125 >>

\* an object whose secret is a number: {"client_id":"AcC-Kx","secret":5}
TextNumberSecret ==
    << 123, 34, 99, 108, 105, 101, 110, 116, 95, 105, 100, 34, 58, 34, 65, 99, 67, 45,
       75, 120, 34, 44, 34, 115, 101, 99, 114, 101, 116, 34, 58, 53, 125 >>

\* JSON: the number 42: 42
TextNumber ==
    << 52, 50 >>

\* JSON: a string: "abc:def"
TextQuoted ==
    << 34, 97, 98, 99, 58, 100, 101, 102, 34 >>

\* JSON: null: null
TextJsonNull ==
    << 110, 117, 108, 108 >>

\* JSON: an array: ["a","b"]
TextArray ==
    << 91, 34, 97, 34, 44, 34, 98, 34, 93 >>

\* legacy identifier:secret: abc123:s3cr3t
TextLegacy ==
    << 97, 98, 99, 49, 50, 51, 58, 115, 51, 99, 114, 51, 116 >>

\* legacy with an empty secret: abc:
TextLegacyNoSecret ==
    << 97, 98, 99, 58 >>

\* legacy with an empty identifier: :abc
TextLegacyNoId ==
    << 58, 97, 98, 99 >>

\* two colons: a:b:c
TextThreeParts ==
    << 97, 58, 98, 58, 99 >>

\* no colon: abc
TextNoColon ==
    << 97, 98, 99 >>

\* the empty string
TextEmpty ==
    <<>>

\* exactly one block of text: 0123456789abcdef
TextSixteen ==
    << 48, 49, 50, 51, 52, 53, 54, 55, 56, 57, 97, 98, 99, 100, 101, 102 >>

\* JSON string of 2-, 3- and 4-byte characters: "ñ€\u{1F600}"
TextAccents ==
    << 34, 241, 8364, 55357, 56832, 34 >>

\* a string with an unpaired surrogate: a\ud800b
TextLoneSurrogate ==
    << 97, 55296, 98 >>

Plaintexts ==
    { TextStructured,
      TextNoSecret,
      TextEmptySecret,
      TextNumberSecret,
      TextNumber,
      TextQuoted,
      TextJsonNull,
      TextArray,
      TextLegacy,
      TextLegacyNoSecret,
      TextLegacyNoId,
      TextThreeParts,
      TextNoColon,
      TextEmpty,
      TextSixteen,
      TextAccents,
      TextLoneSurrogate }

\* a valid key: 32 ASCII characters: sXkZvYpLqWnRtMhBcVjDfGzAeSdQwEiU
Key32 ==
    << 115, 88, 107, 90, 118, 89, 112, 76, 113, 87, 110, 82, 116, 77, 104, 66, 99, 86,
       106, 68, 102, 71, 122, 65, 101, 83, 100, 81, 119, 69, 105, 85 >>

\* another instance's valid key: 0f1e2d3c4b5a69788796a5b4c3d2e1f0
OtherKey32 ==
    << 48, 102, 49, 101, 50, 100, 51, 99, 52, 98, 53, 97, 54, 57, 55, 56, 56, 55, 57,
       54, 97, 53, 98, 52, 99, 51, 100, 50, 101, 49, 102, 48 >>

\* 16 bytes: sXkZvYpLqWnRtMhB
Key16 ==
    << 115, 88, 107, 90, 118, 89, 112, 76, 113, 87, 110, 82, 116, 77, 104, 66 >>

\* 32 characters but 33 bytes of UTF-8: sXkZvYpLqWnRtMhBcVjDfGzAeSdQwEiñ
Key33 ==
    << 115, 88, 107, 90, 118, 89, 112, 76, 113, 87, 110, 82, 116, 77, 104, 66, 99, 86,
       106, 68, 102, 71, 122, 65, 101, 83, 100, 81, 119, 69, 105, 241 >>

\* process.env.ENCRYPTION_KEY: unset, empty, or a string
EnvKeys == {Undefined, Str(<<>>), Str(Key32), Str(OtherKey32), Str(Key16), Str(Key33)}

\* the IV of the values already in the database
StoredIV == [i \in 1..BlockBytes |-> (i * 29 + 7) % 256]

\* envelopes written earlier under this instance's key or under another one
StoredEnvelopes ==
    { Envelope(k, StoredIV, text) : k \in {Key32, OtherKey32}, text \in Plaintexts }

\* text with its last character replaced by c
WithLast(text, c) == SubSeq(text, 1, Len(text) - 1) \o <<c>>

GoodEnvelope == Envelope(Key32, StoredIV, TextStructured)

\* strings that are not envelopes of anything: empty, no colon, two colons,
\* a short IV, an empty ciphertext, a ciphertext cut inside a block, a
\* non-hexadecimal tail, a changed last ciphertext digit, a non-hex IV, an
\* IV of 17 bytes, an IV followed by non-hexadecimal characters
MalformedEnvelopes ==
    { <<48, 48>> \o GoodEnvelope,
      SubSeq(GoodEnvelope, 1, 2 * BlockBytes) \o <<122, 122>>
          \o SubSeq(GoodEnvelope, 2 * BlockBytes + 1, Len(GoodEnvelope)),
      <<>>,
      <<97, 98, 99>>,
      GoodEnvelope \o <<58>> \o <<48, 48>>,
      Substring(GoodEnvelope, 2),
      SubSeq(GoodEnvelope, 1, 2 * BlockBytes + 1),
      SubSeq(GoodEnvelope, 1, Len(GoodEnvelope) - 2),
      GoodEnvelope \o <<122, 122>>,
      WithLast(GoodEnvelope, IF GoodEnvelope[Len(GoodEnvelope)] = 48 THEN 49 ELSE 48),
      <<122>> \o Substring(GoodEnvelope, 1) }

EnvelopeTexts == StoredEnvelopes \cup MalformedEnvelopes

Encrypted == <<101, 110, 99, 114, 121, 112, 116, 101, 100>>     \* "encrypted"
Wrapped(v) == Obj(<<[k |-> Encrypted, val |-> v]>>)

\* what a credentials column can hold: an envelope string, the wrapped
\* object, and values of other shapes
StoredValues ==
    { Str(e) : e \in EnvelopeTexts }
    \cup { Wrapped(Str(e)) : e \in EnvelopeTexts }
    \cup { Null, Undefined, Num(<<52, 50>>), Num(<<48>>), Bool(<<116, 114, 117, 101>>),
           Obj(<<>>), Arr(<<>>), Wrapped(Num(<<52, 50>>)), Wrapped(Null),
           Obj(<<[k |-> <<105, 118>>, val |-> Str(GoodEnvelope)]>>) }

Requests ==
    { [op |-> "encrypt", arg |-> Str(text)] : text \in Plaintexts }
    \cup { [op |-> "encrypt", arg |-> v] : v \in {Null, Num(<<52, 50>>)} }
    \cup { [op |-> "decrypt", arg |-> Str(e)] : e \in EnvelopeTexts }
    \cup { [op |-> "decrypt", arg |-> v] : v \in {Null, Undefined, Num(<<52, 50>>)} }
    \cup { [op |-> "resolve", arg |-> v] : v \in StoredValues }
    \cup { [op |-> "convert", arg |-> Str(text)] : text \in Plaintexts }
    \cup { [op |-> "convert", arg |-> v] : v \in {Null, Num(<<52, 50>>)} }

NoOutcome == [ret |-> NotCalled, threw |-> FALSE]

CipherInit ==
    /\ envKey \in EnvKeys
    /\ ENCRYPTION_KEY = Undefined
    /\ isUsingDefaultKey = FALSE
    /\ log = <<>>
    /\ req \in Requests
    /\ envelope = NotCalled
    /\ out = NoOutcome
    /\ calls = <<>>
    /\ other = NotCalled
    /\ otherOut = NoOutcome
    /\ cipherPc = "boot"

\* encrypt(req.arg)
EncryptCall ==
    /\ cipherPc = "idle"
    /\ req.op = "encrypt"
    /\ \E iv \in RandomIVs :
          LET r == encrypt(req.arg, iv)
          IN  /\ envelope' = r.ret
              /\ log' = log \o r.log
    /\ cipherPc' = "encrypted"
    /\ UNCHANGED <<envKey, ENCRYPTION_KEY, isUsingDefaultKey, req, out, calls, other, otherOut>>
    /\ UNCHANGED <<phoneVars, hookVars>>
    /\ UNCHANGED msgVars

\* decrypt(encrypt(req.arg)): the envelope just produced is decrypted
DecryptOwn ==
    /\ cipherPc = "encrypted"
    /\ LET r == decrypt(envelope)
       IN  /\ out' = [ret |-> r.ret, threw |-> FALSE]
           /\ log' = log \o r.log
    /\ cipherPc' = "done"
    /\ UNCHANGED <<envKey, ENCRYPTION_KEY, isUsingDefaultKey, req, envelope, calls, other, otherOut>>
    /\ UNCHANGED <<phoneVars, hookVars>>
    /\ UNCHANGED msgVars

\* decrypt(req.arg)
DecryptCall ==
    /\ cipherPc = "idle"
    /\ req.op = "decrypt"
    /\ LET r == decrypt(req.arg)
       IN  /\ out' = [ret |-> r.ret, threw |-> FALSE]
           /\ log' = log \o r.log
    /\ cipherPc' = "done"
    /\ UNCHANGED <<envKey, ENCRYPTION_KEY, isUsingDefaultKey, req, envelope, calls, other, otherOut>>
    /\ UNCHANGED <<phoneVars, hookVars>>
    /\ UNCHANGED msgVars

\* decryptProviderCredentials(req.arg, providerName, customerId)
ResolveCall ==
    /\ cipherPc = "idle"
    /\ req.op = "resolve"
    /\ LET r == decryptProviderCredentials(req.arg)
       IN  /\ out' = [ret |-> r.ret, threw |-> r.threw]
           /\ log' = log \o r.log
           /\ calls' = r.calls
    /\ cipherPc' = "done"
    /\ UNCHANGED <<envKey, ENCRYPTION_KEY, isUsingDefaultKey, req, envelope, other, otherOut>>
    /\ UNCHANGED <<phoneVars, hookVars>>
    /\ UNCHANGED msgVars

\* decryptProviderCredentials({encrypted: req.arg}, ...) after
\* decryptProviderCredentials(req.arg, ...) on a string
ResolveWrapped ==
    /\ cipherPc = "done"
    /\ req.op = "resolve"
    /\ req.arg.t = "string"
    /\ \E r \in {decryptProviderCredentials(Wrapped(req.arg))} :
          /\ other' = Wrapped(req.arg)
          /\ otherOut' = [ret |-> r.ret, threw |-> r.threw]
          /\ log' = log \o r.log
          /\ calls' = calls \o r.calls
    /\ cipherPc' = "wrapped"
    /\ UNCHANGED <<envKey, ENCRYPTION_KEY, isUsingDefaultKey, req, envelope, out>>
    /\ UNCHANGED <<phoneVars, hookVars>>
    /\ UNCHANGED msgVars

\* the places of an envelope's ciphertext segment where one hexadecimal
\* character is changed: the first and last character of the first block and
\* of the last block; and the characters put there
TamperPositions(e) ==
    LET start == 2 * BlockBytes + 2
    IN  {start, start + 2 * BlockBytes - 1, Len(e) - 2 * BlockBytes + 1, Len(e)}
ReplacementDigits == {48, 55, 102}
Tampered(e, p, d) == [e EXCEPT ![p] = d]

\* decrypt(e') for e' the envelope just produced with one hexadecimal
\* character of its ciphertext segment changed
TamperDecrypt ==
    /\ cipherPc = "encrypted"
    /\ envelope.t = "string"
    /\ \E p \in TamperPositions(envelope.s) :
          \E d \in ReplacementDigits \ {envelope.s[p]} :
             \E r \in {decrypt(Str(Tampered(envelope.s, p, d)))} :
                /\ other' = Str(Tampered(envelope.s, p, d))
                /\ otherOut' = [ret |-> r.ret, threw |-> FALSE]
                /\ log' = log \o r.log
    /\ cipherPc' = "tampered"
    /\ UNCHANGED <<envKey, ENCRYPTION_KEY, isUsingDefaultKey, req, envelope, out, calls>>
    /\ UNCHANGED <<phoneVars, hookVars>>
    /\ UNCHANGED msgVars

\* a second encrypt(req.arg) that also replaces the module's key
EncryptAgainRekeys ==
    /\ cipherPc = "encrypted"
    /\ \E iv \in RandomIVs :
          \E r \in {encrypt(req.arg, iv)} :
             /\ other' = r.ret
             /\ log' = log \o r.log
    /\ ENCRYPTION_KEY' = Str(OtherKey32)
    /\ cipherPc' = "twice"
    /\ UNCHANGED <<envKey, isUsingDefaultKey, req, envelope, out, calls, otherOut>>
    /\ UNCHANGED <<phoneVars, hookVars>>
    /\ UNCHANGED msgVars

\* encrypt(req.arg) a second time, with its own crypto.randomBytes(16)
EncryptAgain ==
    /\ cipherPc = "encrypted"
    /\ \E iv \in RandomIVs :
          \E r \in {encrypt(req.arg, iv)} :
             /\ other' = r.ret
             /\ log' = log \o r.log
    /\ cipherPc' = "twice"
    /\ UNCHANGED <<envKey, ENCRYPTION_KEY, isUsingDefaultKey, req, envelope, out, calls, otherOut>>
    /\ UNCHANGED <<phoneVars, hookVars>>
    /\ UNCHANGED msgVars

\* decrypt of the first envelope, then decrypt of the second
DecryptBoth ==
    /\ cipherPc = "twice"
    /\ \E r1 \in {decrypt(envelope)} :
          \E r2 \in {decrypt(other)} :
             /\ out' = [ret |-> r1.ret, threw |-> FALSE]
             /\ otherOut' = [ret |-> r2.ret, threw |-> FALSE]
             /\ log' = log \o r1.log \o r2.log
    /\ cipherPc' = "both"
    /\ UNCHANGED <<envKey, ENCRYPTION_KEY, isUsingDefaultKey, req, envelope, calls, other>>
    /\ UNCHANGED <<phoneVars, hookVars>>
    /\ UNCHANGED msgVars

\* convertFromLegacyFormat(req.arg)
ConvertCall ==
    /\ cipherPc = "idle"
    /\ req.op = "convert"
    /\ out' = [ret |-> convertFromLegacyFormat(req.arg), threw |-> FALSE]
    /\ cipherPc' = "done"
    /\ UNCHANGED <<envKey, ENCRYPTION_KEY, isUsingDefaultKey, log, req, envelope, calls, other,
                   otherOut>>
    /\ UNCHANGED <<phoneVars, hookVars>>
    /\ UNCHANGED msgVars

CipherNext ==
    \/ LoadModule
    \/ EncryptCall
    \/ DecryptOwn
    \/ DecryptCall
    \/ ResolveCall
    \/ ResolveWrapped
    \/ ConvertCall
    \/ TamperDecrypt
    \/ EncryptAgain
    \/ DecryptBoth

\* the variables of a part of the program that a specification leaves alone
PhoneParked ==
    /\ phoneNumber = Undefined
    /\ phoneOut = NotCalled
    /\ phoneTwinOut = NotCalled
    /\ phoneAgain = NotCalled
    /\ phonePc = "parked"

CipherParked ==
    /\ envKey = Undefined
    /\ ENCRYPTION_KEY = Undefined
    /\ isUsingDefaultKey = FALSE
    /\ log = <<>>
    /\ req = [op |-> "none", arg |-> Undefined]
    /\ envelope = NotCalled
    /\ out = NoOutcome
    /\ calls = <<>>
    /\ other = NotCalled
    /\ otherOut = NoOutcome
    /\ cipherPc = "parked"

MsgParked ==
    /\ body = Undefined
    /\ clients = {}
    /\ from = Undefined
    /\ messageText = Undefined
    /\ customer = Undefined
    /\ queries = <<>>
    /\ handled = <<>>
    /\ responses = <<>>
    /\ acquired = 0
    /\ released = 0
    /\ msgPc = "parked"
    /\ extractedData = Undefined
    /\ sent = <<>>
    /\ orders = <<>>
    /\ http = <<>>
    /\ posts = 0

HookParked ==
    /\ webhookBody = Undefined
    /\ hookPc = "parked"
    /\ hookRes = <<>>
    /\ processed = <<>>
    /\ hubQuery = Undefined
    /\ WEBHOOK_VERIFY_TOKEN = Undefined
    /\ verifyRes = <<>>
    /\ verifyPc = "parked"

\* encryptionUtils.js loaded with a valid key and not called yet
CipherLoaded ==
    /\ envKey = Str(Key32)
    /\ ENCRYPTION_KEY = Str(Key32)
    /\ isUsingDefaultKey = FALSE
    /\ log = <<LogEntry("info", "Clave de encriptacion cargada y valida", <<>>)>>
    /\ req = [op |-> "none", arg |-> Undefined]
    /\ envelope = NotCalled
    /\ out = NoOutcome
    /\ calls = <<>>
    /\ other = NotCalled
    /\ otherOut = NoOutcome
    /\ cipherPc = "loaded"

InitCipher == CipherInit /\ PhoneParked /\ MsgParked /\ HookParked

SpecCipher == InitCipher /\ [][CipherNext]_vars

-----------------------------------------------------------------------------
(* The raw sender texts the phone specification draws from *)

MaxJunk == 2

\* "3311296199" with and without the prefixes 1, 52, 521, wrong prefixes, and
\* texts that are too short or too long
PhoneBases ==
    { <<>>,
      <<49, 50, 51>>,                                                  \* "123"
      <<51, 51, 49, 49, 50, 57, 54, 49, 57>>,                          \* 9 digits
      <<51, 51, 49, 49, 50, 57, 54, 49, 57, 57>>,                      \* "3311296199"
      <<49, 51, 51, 49, 49, 50, 57, 54, 49, 57, 57>>,                  \* "13311296199"
      <<51, 51, 49, 49, 50, 57, 54, 49, 57, 57, 48>>,                  \* 11 digits, no 1
      <<53, 50, 51, 51, 49, 49, 50, 57, 54, 49, 57, 57>>,              \* "523311296199"
      <<54, 50, 51, 51, 49, 49, 50, 57, 54, 49, 57, 57>>,              \* "623311296199"
      <<53, 50, 49, 51, 51, 49, 49, 50, 57, 54, 49, 57, 57>>,          \* "5213311296199"
      <<54, 50, 49, 51, 51, 49, 49, 50, 57, 54, 49, 57, 57>>,          \* "6213311296199"
      <<53, 50, 49, 51, 51, 49, 49, 50, 57, 54, 49, 57, 57, 48>> }     \* 14 digits

\* '+', ' ' and 'a'
JunkChars == {43, 32, 97}

InsertAt(s, i, c) == SubSeq(s, 1, i) \o <<c>> \o SubSeq(s, i + 1, Len(s))

RECURSIVE Decorated(_)
Decorated(k) ==
    IF k = 0 THEN PhoneBases
    ELSE LET prev == Decorated(k - 1)
         IN  prev \cup { InsertAt(s, i, c) : <<s, i, c>> \in
                           { <<s1, i1, c1>> \in prev \X (0..16) \X JunkChars : i1 <= Len(s1) } }

PhoneInputs == { Str(s) : s \in Decorated(MaxJunk) } \cup {Null, Undefined}

\* the digits of a text, in order
DigitsOf(s) == SelectSeq(s, IsDigit)

PhoneInit ==
    /\ phoneNumber \in PhoneInputs
    /\ phoneOut = NotCalled
    /\ phoneTwinOut = NotCalled
    /\ phoneAgain = NotCalled
    /\ phonePc = "ready"

\* normalizePhoneNumber(phoneNumber)
Normalize ==
    /\ phonePc = "ready"
    /\ phoneOut' = normalizePhoneNumber(phoneNumber)
    /\ phonePc' = "normalized"
    /\ UNCHANGED <<phoneNumber, phoneTwinOut, phoneAgain>>
    /\ UNCHANGED <<cipherVars, hookVars>>
    /\ UNCHANGED msgVars

\* normalizePhoneNumber on the text with the same digits and nothing else
NormalizeTwin ==
    /\ phonePc = "normalized"
    /\ phoneNumber.t = "string"
    /\ phoneTwinOut' = normalizePhoneNumber(Str(DigitsOf(phoneNumber.s)))
    /\ phonePc' = "twin"
    /\ UNCHANGED <<phoneNumber, phoneOut, phoneAgain>>
    /\ UNCHANGED <<cipherVars, hookVars>>
    /\ UNCHANGED msgVars

\* normalizePhoneNumber(normalizePhoneNumber(phoneNumber))
Renormalize ==
    /\ phonePc \in {"normalized", "twin"}
    /\ phoneOut # Null
    /\ phoneAgain' = normalizePhoneNumber(phoneOut)
    /\ phonePc' = "renormalized"
    /\ UNCHANGED <<phoneNumber, phoneOut, phoneTwinOut>>
    /\ UNCHANGED <<cipherVars, hookVars>>
    /\ UNCHANGED msgVars

PhoneNext == Normalize \/ NormalizeTwin \/ Renormalize

InitPhone == PhoneInit /\ CipherParked /\ MsgParked /\ HookParked

SpecPhone == InitPhone /\ [][PhoneNext]_vars

-----------------------------------------------------------------------------
(* The inbound WhatsApp message: handleIncomingMessage, processMessage and
   findCustomerByPhoneNumber *)

Member(name, v) == [k |-> name, val |-> v]
Elem(v) == [k |-> <<>>, val |-> v]

\* a property read throws a TypeError on null and undefined
Nullish(v) == v.t \in {"null", "undefined"}

\* Array.isArray(v) and v[0]
IsArray(v) == v.t = "array"
First(v) == IF Len(v.props) > 0 THEN v.props[1].val ELSE Undefined

FieldEntry == <<101, 110, 116, 114, 121>>          \* "entry"
FieldChanges == <<99, 104, 97, 110, 103, 101, 115>>      \* "changes"
FieldField == <<102, 105, 101, 108, 100>>          \* "field"
FieldValue == <<118, 97, 108, 117, 101>>          \* "value"
FieldMessages == <<109, 101, 115, 115, 97, 103, 101, 115>>    \* "messages"
FieldFrom == <<102, 114, 111, 109>>            \* "from"
FieldText == <<116, 101, 120, 116>>            \* "text"
FieldBody == <<98, 111, 100, 121>>            \* "body"

Thrown == [status |-> 0, threw |-> TRUE, from |-> Undefined, messageText |-> Undefined]
Answer(code) == [status |-> code, threw |-> FALSE, from |-> Undefined, messageText |-> Undefined]

\* the synchronous part of handleIncomingMessage: the status it answers at
\* once, or the sender and text it hands to processMessage (status 0), or the
\* TypeError of a property read on a missing value
Extract(b) ==
    LET entries == GetProp(b, FieldEntry)
        entry == First(entries)
        changes == GetProp(entry, FieldChanges)
        change == First(changes)
        value == GetProp(change, FieldValue)
        messages == GetProp(value, FieldMessages)
        messageData == First(messages)
        text == GetProp(messageData, FieldText)
        sender == GetProp(messageData, FieldFrom)
        msgText == IF Falsy(text) THEN Null ELSE GetProp(text, FieldBody)
    IN  IF Falsy(b) \/ Falsy(entries) \/ ~IsArray(entries) \/ Len(entries.props) = 0
        THEN Answer(400)
        ELSE IF Nullish(entry) THEN Thrown
        ELSE IF Falsy(changes) \/ ~IsArray(changes) \/ Len(changes.props) = 0
        THEN Answer(400)
        ELSE IF Nullish(change) THEN Thrown
        ELSE IF GetProp(change, FieldField) # Str(FieldMessages) THEN Answer(200)
        ELSE IF Nullish(value) THEN Thrown
        ELSE IF Falsy(messages) \/ ~IsArray(messages) \/ Len(messages.props) = 0
        THEN Answer(400)
        ELSE IF Nullish(messageData) THEN Thrown
        ELSE IF ~Falsy(sender) /\ ~Falsy(msgText)
        THEN [status |-> 0, threw |-> FALSE, from |-> sender, messageText |-> msgText]
        ELSE Answer(400)

\* a webhook body whose first entry carries the one change
ChangeBody(change) ==
    Obj(<<Member(FieldEntry, Arr(<<Elem(Obj(<<Member(FieldChanges, Arr(<<Elem(change)>>))>>))>>))>>)

MessagesChange(value) ==
    Obj(<<Member(FieldField, Str(FieldMessages)), Member(FieldValue, value)>>)

MessagesValue(messages) == Obj(<<Member(FieldMessages, Arr(messages))>>)

Message(sender, text) ==
    Obj(<<Member(FieldFrom, sender), Member(FieldText, Obj(<<Member(FieldBody, text)>>))>>)

CanonicalPhone == <<53, 50, 51, 51, 49, 49, 50, 57, 54, 49, 57, 57>>          \* "523311296199"
WhatsAppPhone == <<53, 50, 49, 51, 51, 49, 49, 50, 57, 54, 49, 57, 57>>      \* "5213311296199"

\* the senders 360Dialog may report: the wa_id with the mobile prefix 1, the
\* canonical key, a local number, a formatted number, a foreign number, a
\* short code
Senders ==
    { WhatsAppPhone,
      CanonicalPhone,
      <<51, 51, 49, 49, 50, 57, 54, 49, 57, 57>>,
      <<43, 53, 50, 32, 51, 51, 49, 32, 49, 50, 57, 32, 54, 49, 57, 57>>,
      <<54, 50, 49, 51, 51, 49, 49, 50, 57, 54, 49, 57, 57>>,
      <<49, 50, 51>> }

\* "cobrar 100 cafe" and "hola"
MessageTexts ==
    { <<99, 111, 98, 114, 97, 114, 32, 49, 48, 48, 32, 99, 97, 102, 101>>,
      <<104, 111, 108, 97>> }

\* payment commands: a well-formed one; one in lower case with white space
\* around it, a '$' and decimals; an amount of 0; four words; a last word that
\* is no e-mail address; an amount with a comma
PaymentText ==
    <<80, 65, 71, 79, 32, 53, 48, 48, 32, 67, 111, 110, 115, 117, 108, 116, 111, 114,
      105, 97, 32, 74, 117, 97, 110, 32, 106, 117, 97, 110, 64, 101, 120, 97, 109, 112,
      108, 101, 46, 99, 111, 109>>
PaymentTexts ==
    { PaymentText,
      <<32, 32, 112, 97, 103, 111, 32, 36, 49, 50, 46, 53, 48, 32, 99, 97, 102, 101, 32,
      65, 110, 97, 32, 97, 64, 98, 46, 99, 111, 32>>,
      <<80, 65, 71, 79, 32, 48, 32, 99, 97, 102, 101, 32, 65, 110, 97, 32, 97, 64, 98, 46,
      99, 111>>,
      <<80, 65, 71, 79, 32, 53, 48, 48, 32, 99, 97, 102, 101, 32, 97, 64, 98, 46, 99,
      111>>,
      <<80, 65, 71, 79, 32, 53, 48, 48, 32, 99, 97, 102, 101, 32, 65, 110, 97, 32, 99,
      111, 114, 114, 101, 111>>,
      <<80, 65, 71, 79, 32, 53, 44, 48, 48, 32, 99, 97, 102, 101, 32, 65, 110, 97, 32, 97,
      64, 98, 46, 99, 111>> }

\* the bodies that carry a sender and a text: any sender with a text that is
\* no command, a registered number with each payment command, and a text
\* that is a number
CompleteBodies ==
    { ChangeBody(MessagesChange(MessagesValue(<<Elem(Message(Str(s), Str(txt)))>>))) :
        s \in Senders, txt \in MessageTexts }
    \cup { ChangeBody(MessagesChange(MessagesValue(<<Elem(Message(Str(s), Str(txt)))>>))) :
             s \in {WhatsAppPhone, CanonicalPhone}, txt \in PaymentTexts }
    \cup { ChangeBody(MessagesChange(MessagesValue(
               <<Elem(Message(Str(CanonicalPhone), Num(<<53>>)))>>))) }

\* bodies that lack a part: no body, no entry, an empty or non-array entry, a
\* null entry, no changes, empty changes, a null change, a change of another
\* field, a messages change without a value, a value without messages, no
\* message, a null message, a message without text, without sender, with an
\* empty sender, with an empty text
PartialBodies ==
    { Undefined,
      Obj(<<>>),
      Obj(<<Member(FieldEntry, Arr(<<>>))>>),
      Obj(<<Member(FieldEntry, Str(FieldEntry))>>),
      Obj(<<Member(FieldEntry, Arr(<<Elem(Null)>>))>>),
      Obj(<<Member(FieldEntry, Arr(<<Elem(Obj(<<>>))>>))>>),
      Obj(<<Member(FieldEntry, Arr(<<Elem(Obj(<<Member(FieldChanges, Arr(<<>>))>>))>>))>>),
      ChangeBody(Null),
      ChangeBody(Obj(<<Member(FieldField, Str(<<115, 116, 97, 116, 117, 115, 101, 115>>))>>)),
      ChangeBody(Obj(<<Member(FieldField, Str(FieldMessages))>>)),
      ChangeBody(MessagesChange(Obj(<<>>))),
      ChangeBody(MessagesChange(MessagesValue(<<>>))),
      ChangeBody(MessagesChange(MessagesValue(<<Elem(Null)>>))),
      ChangeBody(MessagesChange(MessagesValue(
          <<Elem(Obj(<<Member(FieldFrom, Str(WhatsAppPhone))>>))>>))),
      ChangeBody(MessagesChange(MessagesValue(
          <<Elem(Obj(<<Member(FieldText, Obj(<<Member(FieldBody, Str(<<104, 111, 108, 97>>))>>))>>))>>))),
      ChangeBody(MessagesChange(MessagesValue(<<Elem(Message(Str(<<>>), Str(<<104, 111, 108, 97>>)))>>))),
      ChangeBody(MessagesChange(MessagesValue(<<Elem(Message(Str(WhatsAppPhone), Str(<<>>)))>>))) }

Bodies == CompleteBodies \cup PartialBodies

\* the POSTs that may follow on the same process
FollowUpBodies ==
    { ChangeBody(MessagesChange(MessagesValue(
          <<Elem(Message(Str(CanonicalPhone), Str(PaymentText)))>>))),
      ChangeBody(MessagesChange(MessagesValue(
          <<Elem(Message(Str(WhatsAppPhone), Str(<<104, 111, 108, 97>>)))>>))) }

\* the POSTs one process receives in a behaviour
MaxMessages == 2

FieldId == <<105, 100>>              \* "id"
FieldPhone == <<112, 104, 111, 110, 101>>        \* "phone"

FieldPaypal == <<112, 97, 121, 112, 97, 108, 95, 99, 114, 101, 100, 115>>              \* "paypal_creds"
FieldConekta == <<99, 111, 110, 101, 107, 116, 97, 95, 99, 114, 101, 100, 115>>                \* "conekta_creds"
FieldMercadoPago == <<109, 101, 114, 99, 97, 100, 111, 112, 97, 103, 111, 95, 99, 114, 101, 100, 115>>      \* "mercadopago_creds"

FieldStatus == <<115, 101, 114, 118, 105, 99, 101, 95, 115, 116, 97, 116, 117, 115>>        \* "service_status"
Activo == <<97, 99, 116, 105, 118, 111>>          \* 'activo'
Inactivo == <<105, 110, 97, 99, 116, 105, 118, 111>>      \* another service_status

\* a row of clients: id, phone, service_status and the three credential columns
Row(id, phone, status, creds) ==
    Obj(<< Member(FieldId, Num(id)), Member(FieldPhone, Str(phone)),
           Member(FieldStatus, Str(status)),
           Member(FieldPaypal, creds[1]), Member(FieldConekta, creds[2]),
           Member(FieldMercadoPago, creds[3]) >>)

\* an object that holds the pair as one text: {"creds":"abc123:s3cr3t"}
TextNested ==
    <<123, 34, 99, 114, 101, 100, 115, 34, 58, 34, 97, 98, 99, 49, 50, 51, 58, 115, 51,
      99, 114, 51, 116, 34, 125>>

LegacyEnvelope == Envelope(Key32, StoredIV, TextLegacy)

\* what the three credential columns of a row may hold: envelope strings of a
\* structured and of a legacy plaintext, the wrapped shape, nothing, an
\* envelope of another key, a malformed envelope, a number
StoredColumns ==
    { << Str(GoodEnvelope), Null, Null >>,
      << Wrapped(Str(GoodEnvelope)), Str(GoodEnvelope), Str(GoodEnvelope) >>,
      << Str(LegacyEnvelope), Str(LegacyEnvelope), Str(LegacyEnvelope) >>,
      << Str(Envelope(OtherKey32, StoredIV, TextStructured)), Wrapped(Str(LegacyEnvelope)),
         Str(<<>>) >>,
      << Str(SubSeq(GoodEnvelope, 1, Len(GoodEnvelope) - 2)), Num(<<52, 50>>),
         Wrapped(Str(GoodEnvelope)) >> }
    \cup { << Str(Envelope(Key32, StoredIV, text)), Null, Null >> :
               text \in {TextNoSecret, TextEmptySecret, TextQuoted, TextNested} }

\* the rows the clients table may hold: a customer stored under the canonical
\* key and one stored under the number as WhatsApp reports it
Rows ==
    { Row(<<49>>, CanonicalPhone, Activo, c) : c \in StoredColumns }
    \cup { Row(<<49>>, CanonicalPhone, Inactivo, << Str(GoodEnvelope), Null, Null >>),
           Row(<<50>>, WhatsAppPhone, Activo, << Str(GoodEnvelope), Null, Null >>) }

\* the contents of the table: phone is unique
Tables ==
    { rows \in SUBSET Rows :
        \A r1, r2 \in rows : GetProp(r1, FieldPhone) = GetProp(r2, FieldPhone) => r1 = r2 }

\* the rows of SELECT ... FROM clients WHERE phone = $1
Select(phone) == { r \in clients : GetProp(r, FieldPhone) = phone }

\* what findCustomerByPhoneNumber leaves in one credential field of the row:
\* [ret |-> the value, log |-> what decrypt logged]; legacy says whether the
\* branch of this provider calls convertFromLegacyFormat
ColumnCredentials(stored, legacy) ==
    IF Falsy(stored) THEN [ret |-> Null, log |-> <<>>]
    ELSE CHOOSE result \in
             { IF Falsy(d.ret) THEN [ret |-> Null, log |-> d.log]
               ELSE CHOOSE r \in
                        { [ret |-> IF parsed.ok THEN parsed.val
                                   ELSE IF legacy THEN convertFromLegacyFormat(d.ret)
                                   ELSE Null,
                           log |-> d.log] : parsed \in {JsonParse(d.ret.s)} } : TRUE
               : d \in {decrypt(stored)} } : TRUE

\* rows[0] with its three credential fields replaced, and what was logged
WithCredentials(row) ==
    CHOOSE result \in
        { [ret |-> Obj(SetProp(SetProp(SetProp(row.props, FieldPaypal, paypal.ret),
                                       FieldConekta, conekta.ret),
                               FieldMercadoPago, mercadopago.ret)),
           log |-> paypal.log \o conekta.log \o mercadopago.log] :
            paypal \in {ColumnCredentials(GetProp(row, FieldPaypal), TRUE)},
            conekta \in {ColumnCredentials(GetProp(row, FieldConekta), FALSE)},
            mercadopago \in {ColumnCredentials(GetProp(row, FieldMercadoPago), FALSE)} } : TRUE

\* pool.connect() and client.query() resolve or reject
DbOutcomes == {"ok", "connectFails", "queryFails"}

-----------------------------------------------------------------------------
(* src/services/commandExtractor.js *)

\* \s of a JavaScript regular expression, which is also what trim() removes
IsSpace(c) ==
    c \in {9, 10, 11, 12, 13, 32, 160, 5760, 8232, 8233, 8239, 8287, 12288, 65279}
          \cup (8192..8202)

\* messageText.trim()
Trim(s) ==
    LET keep == {i \in 1..Len(s) : ~IsSpace(s[i])}
    IN  IF keep = {} THEN <<>>
        ELSE SubSeq(s, CHOOSE i \in keep : \A j \in keep : i <= j,
                       CHOOSE i \in keep : \A j \in keep : j <= i)

\* toUpperCase() on the letters a-z; no other character has P, A, G or O as
\* its upper case, so the test of the command word needs no more
ToUpperCase(s) == [i \in 1..Len(s) |-> IF s[i] \in 97..122 THEN s[i] - 32 ELSE s[i]]

PAYMENT_COMMAND == <<80, 65, 71, 79>>        \* 'PAGO'

\* normalizedMessage.split(/\s+/) of a trimmed text: its words
SplitSpaces(s) ==
    LET starts == {i \in 1..Len(s) : ~IsSpace(s[i]) /\ (i = 1 \/ IsSpace(s[i - 1]))}
        ends == {i \in 1..Len(s) : ~IsSpace(s[i]) /\ (i = Len(s) \/ IsSpace(s[i + 1]))}
        n == Cardinality(starts)
        Nth(set, k) == CHOOSE i \in set : Cardinality({j \in set : j < i}) = k - 1
    IN  IF s = <<>> THEN << <<>> >>
        ELSE AsSeq([k \in 1..n |-> SubSeq(s, Nth(starts, k), Nth(ends, k))], n)

\* parts.join(' ')
RECURSIVE JoinSpace(_)
JoinSpace(parts) ==
    IF Len(parts) = 0 THEN <<>>
    ELSE IF Len(parts) = 1 THEN parts[1]
    ELSE parts[1] \o <<32>> \o JoinSpace(Tail(parts))

\* rawAmount.match(/^\$?(\d+(?:\.\d{1,2})?)$/): the captured group, or no match
AmountMatch(rawAmount) ==
    LET text == IF Len(rawAmount) > 0 /\ rawAmount[1] = 36 THEN Tail(rawAmount) ELSE rawAmount
        dots == {i \in 1..Len(text) : text[i] = 46}
        dot == CHOOSE i \in dots : TRUE
        whole == IF dots = {} THEN text ELSE SubSeq(text, 1, dot - 1)
        cents == IF dots = {} THEN <<>> ELSE SubSeq(text, dot + 1, Len(text))
        AllDigits(t) == \A i \in 1..Len(t) : IsDigit(t[i])
    IN  IF /\ Cardinality(dots) <= 1
           /\ Len(whole) >= 1 /\ AllDigits(whole)
           /\ (dots # {} => (Len(cents) \in {1, 2} /\ AllDigits(cents)))
        THEN [ok |-> TRUE, whole |-> whole, cents |-> cents]
        ELSE [ok |-> FALSE, whole |-> <<>>, cents |-> <<>>]

\* parseFloat of the captured group, as the number prints: no leading zeros,
\* no trailing zeros after the point (amounts below 10^21)
RECURSIVE DropLeadingZeros(_)
DropLeadingZeros(t) ==
    IF Len(t) > 1 /\ t[1] = 48 THEN DropLeadingZeros(Tail(t)) ELSE t
RECURSIVE DropTrailingZeros(_)
DropTrailingZeros(t) ==
    IF Len(t) > 0 /\ t[Len(t)] = 48 THEN DropTrailingZeros(SubSeq(t, 1, Len(t) - 1)) ELSE t
ParseFloat(m) ==
    LET whole == DropLeadingZeros(m.whole)
        cents == DropTrailingZeros(m.cents)
    IN  Num(IF cents = <<>> THEN whole ELSE whole \o <<46>> \o cents)

\* /^[^\s<<93, 43>>[^\s<<93, 43, 92, 46, 91, 94, 92, 115>>]+$/.test(rawEmail)
EmailTest(rawEmail) ==
    LET ats == {i \in 1..Len(rawEmail) : rawEmail[i] = 64}
        at == CHOOSE i \in ats : TRUE
    IN  /\ \A i \in 1..Len(rawEmail) : ~IsSpace(rawEmail[i])
        /\ Cardinality(ats) = 1
        /\ at >= 2
        /\ \E d \in (at + 2)..(Len(rawEmail) - 1) : rawEmail[d] = 46

FieldAmount == <<97, 109, 111, 117, 110, 116>>          \* "amount"
FieldConcept == <<99, 111, 110, 99, 101, 112, 116>>        \* "concept"
FieldName == <<102, 105, 110, 97, 108, 67, 117, 115, 116, 111, 109, 101, 114, 78, 97, 109, 101>>        \* "finalCustomerName"
FieldEmail == <<102, 105, 110, 97, 108, 67, 117, 115, 116, 111, 109, 101, 114, 69, 109, 97, 105, 108>>      \* "finalCustomerEmail"

\* extractPaymentData(messageText): [threw |-> messageText.trim is not a
\* function, val |-> the record returned, or null]
extractPaymentData(text) ==
    IF text.t # "string" THEN [threw |-> TRUE, val |-> Undefined]
    ELSE CHOOSE result \in
           { LET normalizedMessage == w.normalizedMessage
                 parts == w.parts
                 rawAmount == parts[2]
                 rawEmail == parts[Len(parts)]
                 rawNameParts == SubSeq(parts, 3, Len(parts) - 1)
                 concept == Trim(JoinSpace(rawNameParts))
                 finalCustomerName == Trim(JoinSpace(rawNameParts))
                 amountMatch == AmountMatch(rawAmount)
                 amount == ParseFloat(amountMatch)
             IN  [threw |-> FALSE,
                  val |->
                    IF ~StartsWith(ToUpperCase(normalizedMessage), PAYMENT_COMMAND) THEN Null
                    ELSE IF Len(parts) < 5 THEN Null
                    ELSE IF ~amountMatch.ok THEN Null
                    ELSE IF Falsy(amount) THEN Null          \* amount <= 0
                    ELSE IF concept = <<>> THEN Null
                    ELSE IF finalCustomerName = <<>> THEN Null
                    ELSE IF ~EmailTest(rawEmail) THEN Null
                    ELSE Obj(<< [k |-> FieldAmount, val |-> amount],
                                [k |-> FieldConcept, val |-> Str(concept)],
                                [k |-> FieldName, val |-> Str(finalCustomerName)],
                                [k |-> FieldEmail, val |-> Str(rawEmail)] >>)]
             : w \in { [normalizedMessage |-> n, parts |-> SplitSpaces(n)]
                          : n \in {Trim(text.s)} } } : TRUE

-----------------------------------------------------------------------------
(* src/services/paypalService.js *)

FieldClientId == <<99, 108, 105, 101, 110, 116, 95, 105, 100>>      \* "client_id"
FieldSecret == <<115, 101, 99, 114, 101, 116>>            \* "secret"

\* the credentials getAccessToken recovers from creds: client_id and secret
\* read from the object, else the two parts of the first property value that
\* is a string of the form a:b; undefined where nothing was recovered
Recovered(creds) ==
    LET direct == ~Falsy(GetProp(creds, FieldClientId)) /\ ~Falsy(GetProp(creds, FieldSecret))
        legacy == {i \in 1..Len(creds.props) :
                     /\ creds.props[i].val.t = "string"
                     /\ Includes(creds.props[i].val.s, 58)
                     /\ Len(Split(creds.props[i].val.s, 58)) = 2}
        key == CHOOSE i \in legacy : \A j \in legacy : i <= j
        parts == Split(creds.props[key].val.s, 58)
    IN  IF Falsy(creds) \/ TypeOf(creds) # "object"
        THEN [client_id |-> Undefined, secret |-> Undefined]
        ELSE IF direct
        THEN [client_id |-> GetProp(creds, FieldClientId), secret |-> GetProp(creds, FieldSecret)]
        ELSE IF legacy # {}
        THEN [client_id |-> Str(parts[1]), secret |-> Str(parts[2])]
        ELSE [client_id |-> Undefined, secret |-> Undefined]

\* getAccessToken without its if (!client_id || !secret) return null
HasCredentialsUnchecked(creds) == TRUE

\* getAccessToken sends the token request: if (!client_id || !secret) return null
HasCredentials(creds) ==
    ~Falsy(Recovered(creds).client_id) /\ ~Falsy(Recovered(creds).secret)

-----------------------------------------------------------------------------
(* processMessage, findCustomerByPhoneNumber, the two handlers,
   createFinalPaymentLinkForCustomer and paypalService.createOrder *)

\* finally { client.release() }: the releases after a lookup that connected
ReleasedInTryOnly(n, outcome) == IF outcome = "queryFails" THEN n ELSE n + 1
ReleasedAfter(n, outcome) == n + 1

\* console.log(`[SIMULACION WHATSAPP] Enviando a ${to}: ...`)
Sent(to, kind, link) == [to |-> to, kind |-> kind, link |-> link]

\* what PayPal may answer to the token request and to the order request
TokenOutcomes == {"token", "noToken", "fails"}
OrderOutcomes == {"approve", "noApprove", "fails"}

ApprovalUrl ==
    <<104, 116, 116, 112, 115, 58, 47, 47, 112, 97, 121, 112, 97, 108, 46, 116, 101,
      115, 116, 47, 97, 112, 112, 114, 111, 118, 101>>

AccessToken == <<65, 50, 49, 65, 65, 70>>        \* an access_token
FieldDescription == <<100, 101, 115, 99, 114, 105, 112, 116, 105, 111, 110>>      \* "description"

\* an HTTP request of paypalService or the answer to it
Http(kind, detail) == [kind |-> kind, detail |-> detail]

\* the token request carries client_id:secret, the order request the amount
\* and the description
TokenRequest(creds) ==
    Http("tokenRequest", Obj(<< Member(FieldClientId, Recovered(creds).client_id),
                                Member(FieldSecret, Recovered(creds).secret) >>))
OrderRequest(data) ==
    Http("orderRequest", Obj(<< Member(FieldAmount, GetProp(data, FieldAmount)),
                                Member(FieldDescription, GetProp(data, FieldConcept)) >>))

\* what each answer yields: the access_token, the href of the approve link;
\* null where the answer lacks it, undefined where the request failed
Yield(outcome) ==
    IF outcome = "token" THEN Str(AccessToken)
    ELSE IF outcome = "approve" THEN Str(ApprovalUrl)
    ELSE IF outcome = "fails" THEN Undefined
    ELSE Null

\* if (customer.service_status !== 'activo') with 'active' for 'activo'
ServiceActiveEnglish(c) == GetProp(c, FieldStatus) = Str(<<97, 99, 116, 105, 118, 101>>)
\* customer.service_status === 'activo'
ServiceActive(c) == GetProp(c, FieldStatus) = Str(Activo)

\* createFinalPaymentLinkForCustomer: if (!customerPayPalCreds || !amount ||
\* !concept || !finalCustomerName || !finalCustomerEmail) return null
InsufficientData(creds, data) ==
    \/ Falsy(creds)
    \/ Falsy(GetProp(data, FieldAmount))
    \/ Falsy(GetProp(data, FieldConcept))
    \/ Falsy(GetProp(data, FieldName))
    \/ Falsy(GetProp(data, FieldEmail))

MsgInit ==
    /\ body \in Bodies
    /\ clients \in Tables
    /\ from = Undefined
    /\ messageText = Undefined
    /\ customer = Undefined
    /\ queries = <<>>
    /\ handled = <<>>
    /\ responses = <<>>
    /\ acquired = 0
    /\ released = 0
    /\ msgPc = "received"
    /\ extractedData = Undefined
    /\ sent = <<>>
    /\ orders = <<>>
    /\ http = <<>>
    /\ posts = 1

\* handleIncomingMessage(req, res) up to its await: it answers at once, or its
\* promise rejects on a property read, or it calls processMessage
HandleIncomingMessage ==
    /\ msgPc = "received"
    /\ \E r \in {Extract(body)} :
          IF r.threw
          THEN /\ msgPc' = "rejected"
               /\ UNCHANGED <<from, messageText, responses>>
          ELSE IF r.status # 0
          THEN /\ responses' = Append(responses, r.status)
               /\ msgPc' = "responded"
               /\ UNCHANGED <<from, messageText>>
          ELSE /\ from' = r.from
               /\ messageText' = r.messageText
               /\ msgPc' = "processing"
               /\ UNCHANGED responses
    /\ UNCHANGED <<body, clients, customer, queries, handled, acquired, released, posts>>
    /\ UNCHANGED payVars
    /\ UNCHANGED <<phoneVars, cipherVars, hookVars>>

\* the major versions of Express the application may be installed with
ExpressMajors == {4, 5}

\* app.post('/webhook/whatsapp', handleIncomingMessage) once the promise of
\* the handler has rejected: the router of Express 4 ignores the promise and
\* the request is never answered; the router of Express 5 passes the error to
\* the error middleware of app.js, which answers 500
RouterAfterRejection ==
    /\ msgPc = "rejected"
    /\ \E express \in ExpressMajors :
          IF express = 4
          THEN /\ msgPc' = "unanswered"
               /\ UNCHANGED responses
          ELSE /\ responses' = Append(responses, 500)
               /\ msgPc' = "responded"
    /\ UNCHANGED <<body, clients, from, messageText, customer, queries, handled, acquired,
                   released, posts>>
    /\ UNCHANGED payVars
    /\ UNCHANGED <<phoneVars, cipherVars, hookVars>>

\* processMessage(from, messageText): findCustomerByPhoneNumber(from) up to
\* its second await: pool.connect() resolves or rejects, and the SELECT is
\* issued
Connect ==
    /\ msgPc = "processing"
    /\ \E outcome \in DbOutcomes \ {"queryFails"} :
          IF outcome = "connectFails"
          THEN /\ msgPc' = "failed"
               /\ UNCHANGED <<queries, acquired>>
          ELSE /\ acquired' = acquired + 1
               /\ queries' = Append(queries, from)
               /\ msgPc' = "connected"
    /\ UNCHANGED <<body, clients, from, messageText, customer, handled, responses, released,
                   posts>>
    /\ UNCHANGED payVars
    /\ UNCHANGED <<phoneVars, cipherVars, hookVars>>

\* findCustomerByPhoneNumber from the answer to the SELECT: it decrypts the
\* credential columns of the row found, or returns null, or rethrows the
\* query error; the client is released on the way out
FindCustomer ==
    /\ msgPc = "connected"
    /\ \E outcome \in DbOutcomes \ {"connectFails"} :
          /\ released' = ReleasedAfter(released, outcome)
          /\ IF outcome = "queryFails"
             THEN /\ msgPc' = "failed"
                  /\ UNCHANGED <<customer, log>>
             ELSE /\ msgPc' = "looked"
                  /\ IF Select(from) = {}
                     THEN /\ customer' = Null
                          /\ UNCHANGED log
                     ELSE \E found \in {WithCredentials(CHOOSE r \in Select(from) : TRUE)} :
                             /\ customer' = found.ret
                             /\ log' = log \o found.log
    /\ UNCHANGED <<body, clients, from, messageText, queries, handled, responses, acquired,
                   posts>>
    /\ UNCHANGED payVars
    /\ UNCHANGED <<envKey, ENCRYPTION_KEY, isUsingDefaultKey, req, envelope, out, calls,
                   other, otherOut, cipherPc>>
    /\ UNCHANGED <<phoneVars, hookVars>>

\* processMessage: registeredHandler.handle(from, messageText, customer), up
\* to the token request of paypalService.getAccessToken or to its return
RegisteredHandle ==
    /\ msgPc = "looked"
    /\ ~Falsy(customer)
    /\ handled' = Append(handled, "registeredHandler")
    /\ \E data \in {extractPaymentData(messageText)} :
       \E creds \in {GetProp(customer, FieldPaypal)} :
          IF ~ServiceActive(customer)
          THEN /\ sent' = Append(sent, Sent(from, "inactive", Null))
               /\ msgPc' = "processed"
               /\ UNCHANGED <<extractedData, orders, http>>
          ELSE IF data.threw
          THEN \* messageText.trim is not a function: caught by processMessage
               /\ msgPc' = "processed"
               /\ UNCHANGED <<extractedData, sent, orders, http>>
          ELSE IF Falsy(data.val)
          THEN /\ extractedData' = data.val
               /\ sent' = Append(sent, Sent(from, "badFormat", Null))
               /\ msgPc' = "processed"
               /\ UNCHANGED <<orders, http>>
          ELSE IF InsufficientData(creds, data.val)
          THEN /\ extractedData' = data.val
               /\ sent' = Append(sent, Sent(from, "linkFailed", Null))
               /\ msgPc' = "processed"
               /\ UNCHANGED <<orders, http>>
          ELSE /\ extractedData' = data.val
               /\ orders' = Append(orders, creds)
               /\ IF HasCredentials(creds)
                  THEN /\ http' = Append(http, TokenRequest(creds))
                       /\ msgPc' = "token"
                       /\ UNCHANGED sent
                  ELSE /\ sent' = Append(sent, Sent(from, "linkFailed", Null))
                       /\ msgPc' = "processed"
                       /\ UNCHANGED http
    /\ UNCHANGED <<body, clients, from, messageText, customer, queries, responses,
                   acquired, released, posts>>
    /\ UNCHANGED <<phoneVars, cipherVars, hookVars>>

\* getAccessToken from the answer to the token request, and createOrder up to
\* its order request: without a token nothing more is requested
TokenResponse ==
    /\ msgPc = "token"
    /\ \E outcome \in TokenOutcomes :
          IF outcome = "token"
          THEN /\ http' = http \o << Http("tokenResponse", Yield(outcome)),
                                     OrderRequest(extractedData) >>
               /\ msgPc' = "order"
               /\ UNCHANGED sent
          ELSE /\ http' = Append(http, Http("tokenResponse", Yield(outcome)))
               /\ sent' = Append(sent, Sent(from, "linkFailed", Null))
               /\ msgPc' = "processed"
    /\ UNCHANGED <<body, clients, from, messageText, customer, queries, handled, responses,
                   acquired, released, posts, extractedData, orders>>
    /\ UNCHANGED <<phoneVars, cipherVars, hookVars>>

\* createOrder from the answer to the order request, and the rest of
\* registeredHandler.handle: the link goes to the final customer and a
\* confirmation to the sender, or the sender is told of the failure
OrderResponse ==
    /\ msgPc = "order"
    /\ \E outcome \in OrderOutcomes :
          /\ http' = Append(http, Http("orderResponse", Yield(outcome)))
          /\ IF outcome = "approve"
             THEN sent' = sent \o
                     << Sent(GetProp(extractedData, FieldName), "link", Yield(outcome)),
                        Sent(from, "confirmation", Null) >>
             ELSE sent' = Append(sent, Sent(from, "linkFailed", Null))
    /\ msgPc' = "processed"
    /\ UNCHANGED <<body, clients, from, messageText, customer, queries, handled, responses,
                   acquired, released, posts, extractedData, orders>>
    /\ UNCHANGED <<phoneVars, cipherVars, hookVars>>


\* processMessage calling unregisteredHandler.handle whatever the lookup
\* returned: the else branch without its if
UnregisteredHandleAlways ==
    /\ msgPc = "looked"
    /\ handled' = Append(handled, "unregisteredHandler")
    /\ sent' = Append(sent, Sent(from, "notRegistered", Null))
    /\ msgPc' = "processed"
    /\ UNCHANGED <<body, clients, from, messageText, customer, queries, responses,
                   acquired, released, posts, extractedData, orders, http>>
    /\ UNCHANGED <<phoneVars, cipherVars, hookVars>>

\* processMessage: unregisteredHandler.handle(from, messageText)
UnregisteredHandle ==
    /\ msgPc = "looked"
    /\ Falsy(customer)
    /\ handled' = Append(handled, "unregisteredHandler")
    /\ sent' = Append(sent, Sent(from, "notRegistered", Null))
    /\ msgPc' = "processed"
    /\ UNCHANGED <<body, clients, from, messageText, customer, queries, responses,
                   acquired, released, posts, extractedData, orders, http>>
    /\ UNCHANGED <<phoneVars, cipherVars, hookVars>>

\* handleIncomingMessage after processMessage returned (its catch swallows a
\* lookup failure): res.status(200)
Respond ==
    /\ msgPc \in {"processed", "failed"}
    /\ responses' = Append(responses, 200)
    /\ msgPc' = "responded"
    /\ UNCHANGED <<body, clients, from, messageText, customer, queries, handled,
                   acquired, released, posts>>
    /\ UNCHANGED payVars
    /\ UNCHANGED <<phoneVars, cipherVars, hookVars>>

\* the next POST arrives on the same process: the pool and the table stay
NextMessage ==
    /\ msgPc = "responded"
    /\ posts < MaxMessages
    /\ body' \in FollowUpBodies
    /\ posts' = posts + 1
    /\ from' = Undefined
    /\ messageText' = Undefined
    /\ customer' = Undefined
    /\ queries' = <<>>
    /\ handled' = <<>>
    /\ responses' = <<>>
    /\ extractedData' = Undefined
    /\ sent' = <<>>
    /\ orders' = <<>>
    /\ http' = <<>>
    /\ msgPc' = "received"
    /\ UNCHANGED <<clients, acquired, released>>
    /\ UNCHANGED <<phoneVars, cipherVars, hookVars>>

MsgNext ==
    \/ HandleIncomingMessage
    \/ RouterAfterRejection
    \/ Connect
    \/ FindCustomer
    \/ RegisteredHandle
    \/ TokenResponse
    \/ OrderResponse
    \/ UnregisteredHandle
    \/ Respond
    \/ NextMessage

InitMsg == MsgInit /\ PhoneParked /\ CipherLoaded /\ HookParked

SpecMsg == InitMsg /\ [][MsgNext]_vars

\* after the lookup has answered, every promise the handler awaits settles and
\* its continuation runs, and the controller then answers the request
MsgStep ==
    \/ RegisteredHandle
    \/ TokenResponse
    \/ OrderResponse
    \/ UnregisteredHandle
    \/ Respond
MsgFairness == WF_vars(MsgStep)

SpecMsgLive == SpecMsg /\ MsgFairness

-----------------------------------------------------------------------------
(* The PayPal webhook POST (handleWebhook, processCaptureCompleted) and the
   WhatsApp verification GET (verifyWebhook) *)

FieldEventType == <<101, 118, 101, 110, 116, 95, 116, 121, 112, 101>>
FieldResource == <<114, 101, 115, 111, 117, 114, 99, 101>>
FieldPurchaseUnits == <<112, 117, 114, 99, 104, 97, 115, 101, 95, 117, 110, 105, 116, 115>>
FieldReferenceId == <<114, 101, 102, 101, 114, 101, 110, 99, 101, 95, 105, 100>>

CAPTURE_COMPLETED == <<80, 65, 89, 77, 69, 78, 84, 46, 67, 65, 80, 84, 85, 82, 69, 46, 67, 79, 77, 80, 76, 69, 84, 69, 68>>
CaptureDenied == <<80, 65, 89, 77, 69, 78, 84, 46, 67, 65, 80, 84, 85, 82, 69, 46, 68, 69, 78, 73, 69, 68>>
CaptureLower == <<112, 97, 121, 109, 101, 110, 116, 46, 99, 97, 112, 116, 117, 114, 101, 46, 99, 111, 109, 112, 108, 101, 116, 101, 100>>
CaptureId == <<53, 79, 49, 57, 48, 49, 50, 55, 84, 78, 51, 54, 52, 55, 49, 53, 84>>
OrderId == <<79, 82, 68, 45, 49>>

\* resource values of a webhook
Resources ==
    { Obj(<< Member(FieldId, Str(CaptureId)) >>),
      Obj(<< Member(FieldId, Str(CaptureId)),
             Member(FieldPurchaseUnits,
                    Arr(<< Elem(Obj(<< Member(FieldReferenceId, Str(OrderId)) >>)) >>)) >>),
      Obj(<< Member(FieldId, Str(CaptureId)), Member(FieldPurchaseUnits, Arr(<<>>)) >>),
      Obj(<< Member(FieldId, Str(<<>>)) >>),
      Obj(<< Member(FieldPurchaseUnits, Arr(<<>>)) >>),
      Obj(<<>>),
      Str(CaptureId),
      Null }

\* req.body values of the PayPal POST: no body, an empty object, events with
\* and without event_type, resource and resource.id
WebhookBodies ==
    { Undefined, Null, Obj(<<>>) }
      \cup { Obj(<< Member(FieldResource, r) >>) : r \in Resources }
      \cup { Obj(<< Member(FieldEventType, Str(e)) >>) :
                e \in {<<>>, CAPTURE_COMPLETED, CaptureDenied} }
      \cup { Obj(<< Member(FieldEventType, Str(e)), Member(FieldResource, r) >>) :
                e \in {<<>>, CAPTURE_COMPLETED, CaptureDenied, CaptureLower}, r \in Resources }

\* x?.[0]: undefined when x is null or undefined or has no element 0
OptionalFirst(v) == IF IsArray(v) THEN First(v) ELSE Undefined

\* res.status(code).json(...) and res.sendStatus(code), res.status(code).send(payload)
Written(code, payload) == [status |-> code, payload |-> payload]

\* handleWebhook up to its await or its answer: [called |-> it called
\* processCaptureCompleted, call |-> with these arguments, answer |-> what it
\* wrote to res otherwise]
WebhookOutcome(b) ==
    LET eventType == GetProp(b, FieldEventType)
        resource == GetProp(b, FieldResource)
        captureId == GetProp(resource, FieldId)
        orderId == GetProp(OptionalFirst(GetProp(resource, FieldPurchaseUnits)), FieldReferenceId)
        Answered(code, text) == [called |-> FALSE, call |-> NotCalled, answer |-> Written(code, text)]
    IN  IF Falsy(b) \/ Len(b.props) = 0
        THEN Answered(400, "Webhook body is empty")
        ELSE IF Falsy(eventType)
        THEN Answered(400, "Missing event_type in webhook")
        ELSE IF eventType # Str(CAPTURE_COMPLETED)
        THEN Answered(200, "Webhook received, event type not handled")
        ELSE IF Nullish(resource)
        THEN \* resource.id throws inside the try: the catch answers
             Answered(500, "Internal Server Error processing webhook")
        ELSE IF Falsy(captureId)
        THEN Answered(400, "Missing capture_id in webhook")
        ELSE [called |-> TRUE,
              call |-> [captureId |-> captureId, orderId |-> orderId, webhookBody |-> b],
              answer |-> NotCalled]

\* processCaptureCompleted returns, or one of its logger and console calls throws
CaptureOutcomes == {"ok", "raises"}

\* hub.mode, hub.verify_token and hub.challenge of the GET: a text, or absent
VerifyToken == <<109, 120, 45, 118, 101, 114, 105, 102, 121>>
OtherToken == <<103, 117, 101, 115, 115>>
Subscribe == <<115, 117, 98, 115, 99, 114, 105, 98, 101>>
Challenge == <<49, 49, 53, 56, 50, 48, 49, 52, 52, 52>>
Queries ==
    [mode : {Undefined, Str(Subscribe), Str(<<117, 110, 115, 117, 98, 115, 99, 114, 105, 98, 101>>)},
     token : {Undefined, Str(<<>>), Str(VerifyToken), Str(OtherToken)},
     challenge : {Undefined, Str(Challenge)}]

\* process.env.WEBHOOK_VERIFY_TOKEN: not set, set to the empty text, set
Configured == {Undefined, Str(<<>>), Str(VerifyToken)}

\* mode === 'subscribe' && token === process.env.WEBHOOK_VERIFY_TOKEN
Verified(q, configured) == q.mode = Str(Subscribe) /\ q.token = configured

HookInit ==
    /\ webhookBody \in WebhookBodies
    /\ hookPc = "received"
    /\ hookRes = <<>>
    /\ processed = <<>>
    /\ hubQuery \in Queries
    /\ WEBHOOK_VERIFY_TOKEN \in Configured
    /\ verifyRes = <<>>
    /\ verifyPc = "received"

\* handleWebhook(req, res) up to its answer or to its await
HandleWebhook ==
    /\ hookPc = "received"
    /\ \E o \in {WebhookOutcome(webhookBody)} :
          IF ~o.called
          THEN /\ hookRes' = Append(hookRes, o.answer)
               /\ hookPc' = "answered"
               /\ UNCHANGED processed
          ELSE /\ processed' = Append(processed, o.call)
               /\ hookPc' = "processing"
               /\ UNCHANGED hookRes
    /\ UNCHANGED <<webhookBody, hubQuery, WEBHOOK_VERIFY_TOKEN, verifyRes, verifyPc>>
    /\ UNCHANGED <<phoneVars, cipherVars, msgVars>>

\* handleWebhook after processCaptureCompleted settled
ProcessCaptureCompleted ==
    /\ hookPc = "processing"
    /\ \E outcome \in CaptureOutcomes :
          hookRes' = Append(hookRes,
                            IF outcome = "ok"
                            THEN Written(200, "Webhook received and processed successfully")
                            ELSE Written(500, "Internal Server Error processing webhook"))
    /\ hookPc' = "answered"
    /\ UNCHANGED <<webhookBody, processed, hubQuery, WEBHOOK_VERIFY_TOKEN, verifyRes, verifyPc>>
    /\ UNCHANGED <<phoneVars, cipherVars, msgVars>>

\* verifyWebhook(req, res)
VerifyWebhook ==
    /\ verifyPc = "received"
    /\ verifyRes' = Append(verifyRes,
                           IF Verified(hubQuery, WEBHOOK_VERIFY_TOKEN)
                           THEN Written(200, hubQuery.challenge)
                           ELSE Written(403, "Forbidden"))
    /\ verifyPc' = "answered"
    /\ UNCHANGED <<webhookBody, hookPc, hookRes, processed, hubQuery, WEBHOOK_VERIFY_TOKEN>>
    /\ UNCHANGED <<phoneVars, cipherVars, msgVars>>

HookNext == HandleWebhook \/ ProcessCaptureCompleted \/ VerifyWebhook

InitHook == HookInit /\ PhoneParked /\ CipherParked /\ MsgParked

SpecHook == InitHook /\ [][HookNext]_vars

-----------------------------------------------------------------------------
(* Claims about the phone normaliser, checked under SpecPhone *)

\* a PhoneKey: exactly 12 characters, all ASCII digits, the first two "52"
IsPhoneKey(s) ==
    /\ Len(s) = 12
    /\ \A i \in 1..Len(s) : IsDigit(s[i])
    /\ SubSeq(s, 1, 2) = <<53, 50>>

\* C1: normalizePhoneNumber returns null or a PhoneKey (12 ASCII digits
\* beginning with 52); no returned value contains a non-digit character.
C1_ReturnsNullOrPhoneKey ==
    phonePc # "ready" => (phoneOut = Null \/ (phoneOut.t = "string" /\ IsPhoneKey(phoneOut.s)))

\* the dispatch of the specification on a text of digits
ReferenceDispatch(digits) ==
    CASE Len(digits) = 10 -> Str(<<53, 50>> \o digits)
      [] Len(digits) = 11 /\ SubSeq(digits, 1, 1) = <<49>> -> Str(<<53, 50>> \o SubSeq(digits, 2, 11))
      [] Len(digits) = 12 /\ SubSeq(digits, 1, 2) = <<53, 50>> -> Str(digits)
      [] Len(digits) = 13 /\ SubSeq(digits, 1, 3) = <<53, 50, 49>> -> Str(<<53, 50>> \o SubSeq(digits, 4, 13))
      [] OTHER -> Null

\* C8: normalizePhoneNumber agrees with the reference dispatch on the input
\* with its non-digits removed: 10 -> 52+d, 11 with 1 -> 52+d[1:], 12 with 52
\* -> d, 13 with 521 -> 52+d[3:], everything else -> null.
C8_AgreesWithReferenceDispatch ==
    (phonePc # "ready" /\ phoneNumber.t = "string")
        => phoneOut = ReferenceDispatch(DigitsOf(phoneNumber.s))

\* C9: two raw inputs with the same sequence of digits, differing only in
\* other characters, normalize to the same result.
C9_SameDigitsSameResult ==
    phonePc = "twin" => phoneOut = phoneTwinOut

\* C10: idempotence: when normalizePhoneNumber(x) = k is not null,
\* normalizePhoneNumber(k) is not null and equals k.
C10_Idempotent ==
    phonePc = "renormalized" => (phoneAgain # Null /\ phoneAgain = phoneOut)

\* C10 witness: a raw input that is not yet canonical was accepted and its
\* key was normalized again
C10_Witness ==
    /\ phonePc = "renormalized"
    /\ phoneOut # Null
    /\ phoneOut # phoneNumber
    /\ phoneAgain = phoneOut

-----------------------------------------------------------------------------
(* Claims about the inbound message path, checked under SpecMsg *)

\* C2: every customer lookup triggered by an inbound message is issued with
\* the key normalizePhoneNumber returned for that message's sender, and when
\* normalizePhoneNumber rejects the sender no lookup is attempted.
C2_LookupUsesNormalizedKey ==
    \A i \in 1..Len(queries) :
        /\ normalizePhoneNumber(from) # Null
        /\ queries[i] = normalizePhoneNumber(from)

\* C11: each provider credential field (paypal_creds, conekta_creds,
\* mercadopago_creds) of the record findCustomerByPhoneNumber returns equals
\* what decryptProviderCredentials yields for the stored column value, for
\* the string shape, the wrapped shape and a legacy plaintext.
C11_FieldsEqualResolver ==
    (msgPc \in {"looked", "processed", "responded"} /\ customer.t = "object") =>
        \A f \in {FieldPaypal, FieldConekta, FieldMercadoPago} :
            \E r \in {decryptProviderCredentials(
                          GetProp(CHOOSE row \in Select(from) : TRUE, f))} :
                ~r.threw /\ GetProp(customer, f) = r.ret

-----------------------------------------------------------------------------
(* Claims about the cipher and the credential decryptor, under SpecCipher *)

ClientId == <<99, 108, 105, 101, 110, 116, 95, 105, 100>>      \* "client_id"
Secret == <<115, 101, 99, 114, 101, 116>>                      \* "secret"

NonEmptyString(v) == v.t = "string" /\ v.s # <<>>

\* a record carrying a non-empty string client_id and a non-empty string secret
IsCredentialRecord(v) ==
    /\ v.t = "object"
    /\ NonEmptyString(GetProp(v, ClientId))
    /\ NonEmptyString(GetProp(v, Secret))

\* the configured key is a string of exactly 32 bytes
ConfiguredKeyValid == ~Falsy(envKey) /\ Len(Utf8Encode(envKey.s)) = KeyBytes

\* no unpaired surrogate code unit
WellFormed(s) ==
    \A i \in 1..Len(s) :
        /\ s[i] \in 55296..56319 => (i < Len(s) /\ s[i + 1] \in 56320..57343)
        /\ s[i] \in 56320..57343 => (i > 1 /\ s[i - 1] \in 55296..56319)

Resolved == cipherPc = "done" /\ req.op = "resolve"

\* C3: decryptProviderCredentials never partially succeeds: its result is
\* null or a record with a non-empty string client_id and a non-empty string
\* secret; a plaintext that parses as JSON but is no such record is not returned.
C3_NeverPartiallySucceeds ==
    (Resolved /\ ~out.threw) => (out.ret = Null \/ IsCredentialRecord(out.ret))

\* C4: for every stored value (string, object, number, null, absent)
\* decryptProviderCredentials returns and never raises, and it returns null
\* whenever decrypt fails on the extracted envelope.
C4_NeverRaises ==
    Resolved =>
        /\ ~out.threw
        /\ LET e == IF TypeOf(req.arg) = "object" THEN GetProp(req.arg, Encrypted) ELSE req.arg
           IN  decrypt(e).ret = Null => out.ret = Null

\* C5 as stated: with a configured key of exactly 32 bytes, for every string
\* p, encrypt(p) is an envelope and decrypt of it is exactly p.
C5_RoundTripEveryString ==
    (cipherPc = "done" /\ req.op = "encrypt" /\ req.arg.t = "string" /\ ConfiguredKeyValid)
        => (envelope.t = "string" /\ out.ret = req.arg)

\* C5 amended: with a configured key of exactly 32 bytes, for every string p
\* without an unpaired surrogate, encrypt(p) is an envelope and decrypt of it
\* is exactly p.
C5_RoundTripWellFormed ==
    (cipherPc = "done" /\ req.op = "encrypt" /\ req.arg.t = "string" /\ ConfiguredKeyValid
        /\ WellFormed(req.arg.s))
        => (envelope.t = "string" /\ out.ret = req.arg)

\* C5 witness: a text of multi-byte characters went through encrypt and
\* decrypt under a valid key
C5_Witness ==
    /\ cipherPc = "done"
    /\ req = [op |-> "encrypt", arg |-> Str(TextAccents)]
    /\ ConfiguredKeyValid
    /\ envelope.t = "string"
    /\ out.ret = Str(TextAccents)

C7_NoKeyMaterialLogged ==
    \A i \in 1..Len(log) : log[i].keyPart = <<>>

\* C12: both storage shapes resolve identically: for every envelope string e,
\* decryptProviderCredentials({encrypted: e}) returns the same result (the
\* same record or null) as decryptProviderCredentials(e).
C12_ShapesResolveAlike ==
    cipherPc = "wrapped" => otherOut = out

\* C12 witness: an envelope of a structured record resolved to the record in
\* both shapes
C12_Witness ==
    /\ cipherPc = "wrapped"
    /\ req.arg = Str(GoodEnvelope)
    /\ other = Wrapped(Str(GoodEnvelope))
    /\ IsCredentialRecord(out.ret)
    /\ otherOut.ret = out.ret

\* a non-empty string, or an object carrying a non-empty encrypted field
RecognizedShape(v) ==
    \/ v.t = "string" /\ v.s # <<>>
    \/ v.t = "object" /\ ~Falsy(GetProp(v, Encrypted))

\* C13: a stored value that is neither a non-empty string nor an object
\* carrying a non-empty encrypted field makes decryptProviderCredentials
\* return null.
C13_UnrecognizedShapeIsNull ==
    (Resolved /\ ~RecognizedShape(req.arg)) => (~out.threw /\ out.ret = Null)

\* C14: convertFromLegacyFormat returns the record {client_id: first part,
\* secret: second part} exactly when splitting the text on ':' yields two
\* parts and both are non-empty; for every other text it returns null.
C14_LegacyNeedsTwoNonEmptyParts ==
    (cipherPc = "done" /\ req.op = "convert" /\ req.arg.t = "string") =>
        LET parts == Split(req.arg.s, 58)
        IN  IF Len(parts) = 2 /\ parts[1] # <<>> /\ parts[2] # <<>>
            THEN out.ret = Obj(<<Member(ClientId, Str(parts[1])), Member(Secret, Str(parts[2]))>>)
            ELSE out.ret = Null

\* the plaintext decryptProviderCredentials obtains for a stored value: what
\* decrypt returns on the extracted envelope (null when there is none)
DecryptedPlaintext(stored) ==
    CHOOSE d \in { IF shape.found THEN decrypt(shape.val).ret ELSE Null :
                      shape \in {ExtractEncrypted(stored)} } : TRUE

C16_LegacyFallback ==
    Resolved =>
        \A d \in {DecryptedPlaintext(req.arg)} :
            (~Falsy(d) /\ ~JsonParse(d.s).ok) =>
                /\ ~out.threw
                /\ out.ret = convertFromLegacyFormat(d)

\* C16 witness: the plaintext abc123:s3cr3t resolved to client_id "abc123"
\* and secret "s3cr3t"
C16_Witness ==
    /\ Resolved
    /\ envKey = Str(Key32)
    /\ req.arg = Str(LegacyEnvelope)
    /\ out.ret = Obj(<< Member(ClientId, Str(<<97, 98, 99, 49, 50, 51>>)),
                        Member(Secret, Str(<<115, 51, 99, 114, 51, 116>>)) >>)

\* the positions of ':' in a text, and the text before the first of them
ColonsAt(s) == {i \in 1..Len(s) : s[i] = 58}
IvSegment(s) == SubSeq(s, 1, (CHOOSE i \in ColonsAt(s) : \A j \in ColonsAt(s) : i <= j) - 1)

\* C17: decrypt never raises: for every argument it returns a string or
\* null, and it returns null whenever the argument does not split on ':' into
\* exactly two segments or the IV segment does not decode to exactly 16 bytes.
C17_DecryptNeverRaises ==
    (cipherPc = "done" /\ req.op = "decrypt") =>
        /\ ~out.threw
        /\ out.ret.t \in {"string", "null"}
        /\ (\/ req.arg.t # "string"
            \/ Cardinality(ColonsAt(req.arg.s)) # 1
            \/ Len(HexDecode(IvSegment(req.arg.s))) # BlockBytes) => out.ret = Null

\* C17 witness: under a valid key, decrypt returned null for a text of two
\* segments whose IV segment does not decode to 16 bytes
C17_Witness ==
    /\ cipherPc = "done"
    /\ req.op = "decrypt"
    /\ ConfiguredKeyValid
    /\ req.arg.t = "string"
    /\ Cardinality(ColonsAt(req.arg.s)) = 1
    /\ Len(HexDecode(IvSegment(req.arg.s))) # BlockBytes
    /\ out.ret = Null

\* 0-9, a-f, A-F, tested without the decoder
IsHexDigit(c) == c \in (48..57) \cup (97..102) \cup (65..70)

\* C18: decrypt returns null whenever a segment of the envelope holds a
\* character that is not a hexadecimal digit, appended characters included.
C18_NonHexFails ==
    (/\ cipherPc = "done"
     /\ req.op = "decrypt"
     /\ req.arg.t = "string"
     /\ Cardinality(ColonsAt(req.arg.s)) = 1
     /\ \E i \in 1..Len(req.arg.s) : req.arg.s[i] # 58 /\ ~IsHexDigit(req.arg.s[i]))
        => out.ret = Null

\* C19: for every envelope that encrypt produced, changing one hexadecimal
\* character of the ciphertext segment makes decrypt return null; decrypt
\* never returns a plaintext other than the one that was encrypted.
C19_TamperedFails ==
    cipherPc = "tampered" =>
        /\ otherOut.ret = Null
        /\ otherOut.ret \in {Null, req.arg}

\* two encrypt calls on one string plaintext under a valid key, both decrypted
EncryptedTwice ==
    cipherPc = "both" /\ req.arg.t = "string" /\ ConfiguredKeyValid

-----------------------------------------------------------------------------
(* Claims about the handlers and the PayPal service, checked under SpecMsg *)

\* registeredHandler.handle ran to its end for an active customer whose
\* message yielded payment data
PaymentRequested ==
    /\ msgPc \in {"processed", "responded"}
    /\ handled = <<"registeredHandler">>
    /\ ServiceActive(customer)
    /\ ~Falsy(extractedData)

\* with null PayPal credentials createOrder is skipped and the sender is told
\* of the failure
NullCredentialsSkip ==
    (PaymentRequested /\ GetProp(customer, FieldPaypal) = Null) =>
        /\ orders = <<>>
        /\ http = <<>>
        /\ sent = <<Sent(from, "linkFailed", Null)>>

\* C21: paypalService.createOrder is never invoked with credentials that are
\* not a complete {client_id, secret} pair; when the customer's resolved
\* PayPal credentials are null it is skipped and the handler reports a
\* failure to the requesting sender.
C21_OrderOnlyWithCompletePair ==
    /\ \A i \in 1..Len(orders) : IsCredentialRecord(orders[i])
    /\ NullCredentialsSkip

-----------------------------------------------------------------------------
(* The shared key, checked under SpecCipher *)

PayableRequest ==
    /\ ~Falsy(customer)
    /\ GetProp(customer, FieldStatus) = Str(Activo)
    /\ ~extractPaymentData(messageText).threw
    /\ ~Falsy(extractPaymentData(messageText).val)
    /\ IsCredentialRecord(GetProp(customer, FieldPaypal))

\* the answers of PayPal so far include an approval URL
Approved == \E i \in 1..Len(http) : http[i] = Http("orderResponse", Str(ApprovalUrl))

LookupReturned == customer # Undefined

\* C24: processMessage invokes exactly one handler per message whenever the
\* customer lookup returns: registeredHandler.handle if and only if a customer
\* record was found, unregisteredHandler.handle otherwise; if the lookup
\* raises, neither handler is invoked and processMessage still completes
\* without raising.
C24_OneHandlerPerMessage ==
    /\ []((LookupReturned /\ msgPc \in {"processed", "token", "order", "responded"}) =>
            /\ Falsy(customer) <=> Select(from) = {}
            /\ handled = << IF Select(from) = {} THEN "unregisteredHandler"
                            ELSE "registeredHandler" >>)
    /\ [](~LookupReturned => handled = <<>>)
    /\ [][msgPc = "failed" => /\ msgPc' = "responded"
                              /\ responses' = Append(responses, 200)
                              /\ handled' = <<>>]_vars

\* C24 witness: a found customer was handed to registeredHandler.handle, and
\* processMessage returned
C24_Witness ==
    /\ msgPc = "responded"
    /\ Select(from) # {}
    /\ handled = <<"registeredHandler">>
    /\ responses = <<200>>

\* the clients findCustomerByPhoneNumber holds: acquired and not yet released
Held == acquired - released

\* C25: every database client acquired from the connection pool by
\* findCustomerByPhoneNumber is released exactly once before the call
\* completes, on every path: customer found, customer not found, query
\* failure, and credential decryption or parse failure; after any sequence of
\* lookups the number of held clients is zero.
C25_ClientReleasedOnce ==
    /\ [](Held = IF msgPc = "connected" THEN 1 ELSE 0)
    /\ [][msgPc = "connected" =>
             /\ msgPc' \in {"looked", "failed"}
             /\ released' = released + 1
             /\ acquired' = acquired]_vars
    /\ [][released' # released => msgPc = "connected"]_vars

\* C25 witness: the second lookup of a process completed after a credential
\* column failed to decrypt, and both clients are back in the pool
C25_Witness ==
    /\ posts = 2
    /\ msgPc = "looked"
    /\ acquired = 2
    /\ released = 2
    /\ ~Falsy(customer)
    /\ GetProp(customer, FieldPaypal) = Null
    /\ log # <<>>

-----------------------------------------------------------------------------
(* Claims about the PayPal requests and the two webhooks *)

\* the access token arrived before position i of the HTTP trace
TokenBefore(i) == \E j \in 1..(i - 1) : http[j] = Http("tokenResponse", Str(AccessToken))

\* C27: paypalService.createOrder sends the order-creation request only after
\* getAccessToken returned a token, and getAccessToken sends the token request
\* only when it recovered both a non-empty client_id and a non-empty secret
\* from the credentials; otherwise each returns null without making any HTTP
\* request.
C27_RequestsOnlyWithTokenAndPair ==
    /\ \A i \in 1..Len(http) :
          /\ http[i].kind = "orderRequest" => TokenBefore(i)
          /\ http[i].kind = "tokenRequest" =>
                /\ orders # <<>>
                /\ ~Falsy(GetProp(http[i].detail, FieldClientId))
                /\ ~Falsy(GetProp(http[i].detail, FieldSecret))
                /\ Recovered(orders[1]) = [client_id |-> GetProp(http[i].detail, FieldClientId),
                                           secret |-> GetProp(http[i].detail, FieldSecret)]
    /\ (msgPc \in {"processed", "responded"} /\ orders # <<>>) =>
          /\ (Falsy(Recovered(orders[1]).client_id) \/ Falsy(Recovered(orders[1]).secret))
                => http = <<>>
          /\ (Len(http) >= 2 /\ http[2] # Http("tokenResponse", Str(AccessToken)))
                => Len(http) = 2

\* C27 witness: the order request went out after the token had arrived
C27_Witness ==
    /\ msgPc = "order"
    /\ Len(http) = 3
    /\ http[1].kind = "tokenRequest"
    /\ http[2] = Http("tokenResponse", Str(AccessToken))
    /\ http[3].kind = "orderRequest"

\* the request body of the PayPal POST as the claims describe it
NonEmptyBody == ~Falsy(webhookBody) /\ webhookBody.props # <<>>
HasEventType == ~Falsy(GetProp(webhookBody, FieldEventType))
IsCaptureCompleted == GetProp(webhookBody, FieldEventType) = Str(CAPTURE_COMPLETED)
HasCaptureId == ~Falsy(GetProp(GetProp(webhookBody, FieldResource), FieldId))

\* C26: the PayPal webhook handler invokes processCaptureCompleted only for a
\* non-empty body whose event_type is 'PAYMENT.CAPTURE.COMPLETED' and whose
\* resource carries a capture id; it answers 400 for an empty body, a missing
\* event_type or a missing capture id, 200 without processing for any other
\* event type, and 500 when processing raises.
C26_WebhookDispatch ==
    /\ processed # <<>> => (NonEmptyBody /\ IsCaptureCompleted /\ HasCaptureId)
    /\ hookPc = "answered" =>
          /\ (~NonEmptyBody \/ ~HasEventType \/ (IsCaptureCompleted /\ ~HasCaptureId))
                => hookRes[1].status = 400
          /\ (NonEmptyBody /\ HasEventType /\ ~IsCaptureCompleted)
                => (hookRes[1].status = 200 /\ processed = <<>>)
          /\ hookRes[1].status = 500 => processed # <<>>

\* C28: every POST handled by handleIncomingMessage and by handleWebhook
\* produces exactly one HTTP response for every request body, including
\* bodies with missing nested fields; no path ends without responding or
\* responds twice.
C28_ExactlyOneResponse ==
    /\ Len(responses) <= 1
    /\ Len(hookRes) <= 1
    /\ msgPc \in {"responded", "unanswered"} => Len(responses) = 1
    /\ hookPc = "answered" => Len(hookRes) = 1

\* C29: verifyWebhook answers 200 with the challenge only when hub.mode is
\* 'subscribe' and the request carries a hub.verify_token equal to the
\* configured WEBHOOK_VERIFY_TOKEN; a request that carries no verify token is
\* answered 403 under every configuration, including when
\* WEBHOOK_VERIFY_TOKEN is not set.
C29_VerifyNeedsToken ==
    verifyPc = "answered" =>
        /\ verifyRes[1].status = 200 =>
              /\ hubQuery.mode = Str(Subscribe)
              /\ hubQuery.token # Undefined
              /\ hubQuery.token = WEBHOOK_VERIFY_TOKEN
              /\ verifyRes[1].payload = hubQuery.challenge
        /\ hubQuery.token = Undefined => verifyRes[1].status = 403

\* the last 10 characters of a text
Last10(s) == IF Len(s) <= 10 THEN s ELSE SubSeq(s, Len(s) - 9, Len(s))

=============================================================================
